---- MODULE Spec2Model ----
(***************************************************************************)
(* Lyric-to-audio alignment engine of phase-3-performance:                 *)
(*   realign_lyrics.py  (transcribe_song, match_lyric_to_segments,         *)
(*                       refine_timestamp, rechop_song, main)              *)
(*   build_rap_db.py    (grok_transcribe_song, grok_align_line,            *)
(*                       estimate_line_timestamps, grok_select_phrases,    *)
(*                       chop_song_by_phrases)                             *)
(*                                                                         *)
(* Conventions.                                                            *)
(*   - A Python str is a sequence of one-character strings.                *)
(*   - Times are exact quantities counted in microseconds; a value that    *)
(*     the code passes through round(x, 3) is a multiple of 1000.          *)
(*   - A score (a float in [0, 1] in the code) is an exact fraction        *)
(*     [num, den] with den > 0.                                            *)
(*   - round(x, 3) of a value lying exactly half-way between two           *)
(*     thousandths depends on the binary representation of the float, so   *)
(*     both neighbours are possible outcomes.                              *)
(***************************************************************************)
EXTENDS Integers, Sequences, FiniteSets, TLC

VARIABLES
    \* ---- alignment of the lines of one song (both pipelines) ----
    pipeline,         \* "realign" (realign_lyrics.main) or "build" (grok_select_phrases)
    song_dur,         \* duration of the recording, microseconds
    segments,         \* the song's window list: <<[start, end, text], ...>>
    onset_times,      \* onsets detected in the recording, ascending
    lines,            \* build: lyrics["lines"]
    selected_indices, \* build: the line numbers passed to alignment (0-based)
    song_phrases,     \* realign: the phrases read from the phrase file
    ph_pos,           \* number of passes of the per-line loop made so far
    out_phrases,      \* corrected_phrases (realign) / phrases (build)
    last_match,       \* what the matcher returned in the latest pass
    stats,            \* realign's counters matched / unmatched / kept_old
    phrases_file,     \* realign: content of transcripts/{name}_phrases.json
    song_pc           \* realign: "loop", then "saved" or "dry_run" ("idle")

VARIABLES
    \* ---- one call of estimate_line_timestamps (on song_dur, onset_times) ----
    est_pc,           \* "idle", "start", "bisect", "merge" or "done"
    est_num_lines,      \* the target count N
    est_segments,     \* the local list `segments` of the call
    est_timestamps      \* the list the call returns

VARIABLES
    \* ---- one call of the Clip Chopper ----
    chopper,          \* "chop_song_by_phrases" (build) or "rechop_song" (realign)
    wave,             \* the loaded waveform y, run-length coded
    chop_song,        \* [artist, title, song_idx]
    chop_phrases,     \* the phrase list passed in
    chop_ci,          \* number of passes of the phrase loop made so far
    clips_meta,       \* the metadata records appended so far
    clip_files,       \* the audio files written so far
    chop_last         \* what the latest pass measured and did

VARIABLES
    \* ---- the Windowed Transcriber and its cache ----
    cache,            \* transcripts/{name}_grok_align.json: content or Absent
    run_result,       \* history: the list the latest completed run of a name
                      \* returned, Absent once the caller has deleted the file
    tr_pc,            \* "idle", "batch", "gather", "seq", "write", "returned",
                      \* "raised", "killed"
    tr_call,          \* the call: [name, pipeline, hit], and as history
                      \* `prior`: run_result of the name when the call began
    tr_windows,       \* realign: `windows`; build: the bounds the loop walks
    tr_segments,      \* `segments`
    tr_batch_start,   \* realign: batch_start
    tr_results,       \* realign: what gather holds for each task of the batch
    tr_done_order,    \* realign: the tasks of the batch in completion order
    tr_attempt,       \* build: failed attempts on the current window
    tr_failed,        \* history: windows whose transcription failed
    tr_invocations,   \* history: capability invocations made by the call
    tr_ret,           \* the value the call returned
    tr_last           \* history: the latest event [idx, what]

VARIABLES
    \* ---- the Phrase Selector: one song's lines -> candidate lines ----
    sel_pc,           \* "idle", "start", "ranking", "ranked", "done", "raised"
    sel_env,          \* [entry, use_grok, key]: the function entered, the
                      \* --no-grok switch, whether XAI_API_KEY is non-empty
    sel_response,     \* what the line-ranking call produced
    sel_timestamps    \* the list estimate_line_timestamps handed over

VARIABLES
    \* ---- one run of main() over a batch of songs, and the files ----
    run_pc,           \* "idle", "start", "lyrics", "songs", "outputs", "done",
                      \* "dry_done", "exited" (sys.exit(1)), "crashed"
    run_cfg,          \* [pipeline, key, dry_run, use_grok, force]
    run_songs,        \* the batch: <<[song_idx, artist, title, fault, emits]>>
    run_lyrics,       \* positions of the songs whose lyrics have been read
    run_handled,      \* positions of the songs whose processing has ended
    run_done,         \* history: positions of the songs processed to the end
    run_all_clips,    \* all_clips
    fs_clips,         \* names of the files in RAP_CLIPS_DIR
    fs_meta,          \* [written, files]: the clip files the metadata lists,
                      \* and whether this run wrote the metadata
    run_log           \* history: what this run did to files and capabilities

align_vars == <<pipeline, song_dur, segments, onset_times, lines,
                selected_indices, song_phrases, ph_pos, out_phrases,
                last_match, stats, phrases_file, song_pc>>

est_vars == <<est_pc, est_num_lines, est_segments, est_timestamps>>

chop_vars == <<chopper, wave, chop_song, chop_phrases, chop_ci, clips_meta,
               clip_files, chop_last>>

tr_vars == <<cache, run_result, tr_pc, tr_call, tr_windows, tr_segments,
             tr_batch_start, tr_results, tr_done_order, tr_attempt, tr_failed,
             tr_invocations, tr_ret, tr_last>>

sel_vars == <<sel_pc, sel_env, sel_response, sel_timestamps>>

run_vars == <<run_pc, run_cfg, run_songs, run_lyrics, run_handled, run_done,
              run_all_clips, fs_clips, fs_meta, run_log>>

vars == <<align_vars, est_vars, chop_vars, tr_vars, sel_vars, run_vars>>

-----------------------------------------------------------------------------
(* Python str primitives used by _clean / _words and the sentinel test.    *)

Lowers == <<"a", "b", "c", "d", "e", "f", "g", "h", "i", "j", "k", "l", "m",
            "n", "o", "p", "q", "r", "s", "t", "u", "v", "w", "x", "y", "z">>
Uppers == <<"A", "B", "C", "D", "E", "F", "G", "H", "I", "J", "K", "L", "M",
            "N", "O", "P", "Q", "R", "S", "T", "U", "V", "W", "X", "Y", "Z">>
Digits == {"0", "1", "2", "3", "4", "5", "6", "7", "8", "9"}
Whitespace == {" ", "\t", "\n"}

Range(f) == {f[i] : i \in DOMAIN f}

lower(s) ==
    [i \in 1..Len(s) |->
        IF \E k \in 1..26 : Uppers[k] = s[i]
        THEN Lowers[CHOOSE k \in 1..26 : Uppers[k] = s[i]]
        ELSE s[i]]

upper(s) ==
    [i \in 1..Len(s) |->
        IF \E k \in 1..26 : Lowers[k] = s[i]
        THEN Uppers[CHOOSE k \in 1..26 : Lowers[k] = s[i]]
        ELSE s[i]]

\* str.strip(): drop leading and trailing whitespace
strip(s) ==
    LET keep == {i \in 1..Len(s) : s[i] \notin Whitespace}
    IN  IF keep = {} THEN <<>>
        ELSE LET lo == CHOOSE i \in keep : \A j \in keep : i <= j
                 hi == CHOOSE i \in keep : \A j \in keep : j <= i
             IN  SubSeq(s, lo, hi)

\* str.split(): the maximal runs of non-whitespace characters, in order
RECURSIVE split(_)
split(s) ==
    IF s = <<>> THEN <<>>
    ELSE IF s[1] \in Whitespace THEN split(Tail(s))
    ELSE LET stops == {i \in 1..Len(s) : s[i] \in Whitespace}
             stop  == IF stops = {} THEN Len(s) + 1
                      ELSE CHOOSE i \in stops : \A j \in stops : i <= j
         IN  <<SubSeq(s, 1, stop - 1)>> \o split(SubSeq(s, stop, Len(s)))

\* `pat in text`
Contains(text, pat) ==
    \E i \in 0..(Len(text) - Len(pat)) : SubSeq(text, i + 1, i + Len(pat)) = pat

INSTRUMENTAL == <<"[", "I", "N", "S", "T", "R", "U", "M", "E", "N", "T", "A", "L", "]">>

\* re.sub(r"[^a-z0-9\s']", "", s.lower()).strip()
IsKept(c) == c \in Range(Lowers) \cup Digits \cup Whitespace \cup {"'"}

_clean(s) == strip(SelectSeq(lower(s), IsKept))

_words(s) == split(_clean(s))

IsSkippedText_cased(text) == text = <<>> \/ Contains(text, INSTRUMENTAL)

\* `not text or "[INSTRUMENTAL]" in text.upper()`: the window is skipped
IsSkippedText(text) == text = <<>> \/ Contains(upper(text), INSTRUMENTAL)

-----------------------------------------------------------------------------
(* Exact fractions.                                                        *)

Frac(n, d) == [num |-> n, den |-> d]
Zero == Frac(0, 1)
FracGT(x, y) == x.num * y.den > y.num * x.den
FracGE(x, y) == x.num * y.den >= y.num * x.den
FracEQ(x, y) == x.num * y.den = y.num * x.den
FracMax(x, y) == IF FracGT(y, x) THEN y ELSE x

-----------------------------------------------------------------------------
(* difflib.SequenceMatcher(None, a, b).ratio() (no junk; autojunk only     *)
(* applies to sequences of 200 or more elements).                          *)

RECURSIVE RunLen(_, _, _, _, _, _)
RunLen(a, b, i, j, ahi, bhi) ==
    IF i > ahi \/ j > bhi THEN 0
    ELSE IF a[i] # b[j] THEN 0
    ELSE 1 + RunLen(a, b, i + 1, j + 1, ahi, bhi)

\* longest common block of a[alo..ahi] and b[blo..bhi]; of the longest ones
\* the block starting earliest in a, then earliest in b: <<i, j, size>>
find_longest_match(a, b, alo, ahi, blo, bhi) ==
    LET cands == (alo..ahi) \X (blo..bhi)
        size(p) == RunLen(a, b, p[1], p[2], ahi, bhi)
        best == CHOOSE p \in cands :
                    \A q \in cands :
                        \/ size(p) > size(q)
                        \/ /\ size(p) = size(q)
                           /\ \/ p[1] < q[1]
                              \/ p[1] = q[1] /\ p[2] <= q[2]
    IN  <<best[1], best[2], size(best)>>

\* sum of the sizes of get_matching_blocks(): the longest block m of the
\* span, then the blocks to its left and to its right
RECURSIVE matching_total(_, _, _, _, _, _)
blocks_around(a, b, alo, ahi, blo, bhi, m) ==
    IF m[3] = 0 THEN 0
    ELSE m[3]
         + matching_total(a, b, alo, m[1] - 1, blo, m[2] - 1)
         + matching_total(a, b, m[1] + m[3], ahi, m[2] + m[3], bhi)

matching_total(a, b, alo, ahi, blo, bhi) ==
    IF alo > ahi \/ blo > bhi THEN 0
    ELSE blocks_around(a, b, alo, ahi, blo, bhi,
                       find_longest_match(a, b, alo, ahi, blo, bhi))

ratio(a, b) ==
    IF Len(a) + Len(b) = 0 THEN Frac(1, 1)
    ELSE Frac(2 * matching_total(a, b, 1, Len(a), 1, Len(b)), Len(a) + Len(b))

-----------------------------------------------------------------------------
(* Program constants (times in microseconds, scores as fractions).         *)

SEG_DURATION == 10000000
SEG_STEP == 5000000
MIN_PHRASE_DURATION == 600000
MAX_PHRASE_DURATION == 4000000
MIN_CONFIDENCE == Frac(30, 100)       \* realign: --min-confidence default
GROK_MIN_SCORE == Frac(15, 100)       \* grok_align_line: best_score < 0.15
GROK_ACCEPT == Frac(25, 100)          \* grok_select_phrases: confidence >= 0.25
CONSEC_RATIO == Frac(75, 100)         \* matcher: ratio() > 0.75
REFINE_RATIO == Frac(7, 10)           \* refiner: ratio() > 0.7
FALLBACK_WPS_GAP == 200000            \* 1 / 5.0 words per second

Min(a, b) == IF a <= b THEN a ELSE b
Max(a, b) == IF a >= b THEN a ELSE b

\* round(x, 3) of the time x / d microseconds: the nearest multiple of 1000;
\* both neighbours when x / d lies exactly half-way
Round3(x, d) ==
    LET unit == 1000 * d
        q == x \div unit
        r == x % unit
    IN  IF 2 * r < unit THEN {1000 * q}
        ELSE IF 2 * r > unit THEN {1000 * (q + 1)}
        ELSE {1000 * q, 1000 * (q + 1)}

\* round(score, 3) as a fraction over 1000; both neighbours on a tie
RoundScore(f) ==
    LET q == (1000 * f.num) \div f.den
        r == (1000 * f.num) % f.den
    IN  IF 2 * r < f.den THEN {Frac(q, 1000)}
        ELSE IF 2 * r > f.den THEN {Frac(q + 1, 1000)}
        ELSE {Frac(q, 1000), Frac(q + 1, 1000)}

-----------------------------------------------------------------------------
(* The texts of the model: window transcripts and lyric lines.             *)

\* transcripts the capability may return for a window: a failed call; the
\* instrumental marker; the marker in lower case followed by words; a
\* transcript with a misheard word; punctuation only; a single word; a
\* transcript that holds a whole lyric line; a transcript with a repeated
\* word
Transcripts ==
    {<<>>,
     <<"b", "e", " ", "h", "u", "m", "b", "l", "e", " ", "b", "e">>,
     <<"[", "I", "N", "S", "T", "R", "U", "M", "E", "N", "T", "A", "L", "]">>,
     <<"[", "i", "n", "s", "t", "r", "u", "m", "e", "n", "t", "a", "l", "]",
       " ", "b", "e", " ", "h", "u", "m", "b", "l", "e">>,
     <<"S", "i", "t", " ", "d", "o", "w", "n", ",", " ",
       "b", "e", " ", "h", "u", "m", "b", "e", "l">>,
     <<"!", "!">>,
     <<"s", "i", "t">>,
     <<"s", "i", "t", " ", "d", "o", "w", "n", " ",
       "b", "e", " ", "h", "u", "m", "b", "l", "e">>}

\* lyric lines
Lyrics ==
    {<<"B", "e", " ", "h", "u", "m", "b", "l", "e", ".">>,
     <<".", ".", ".">>,
     <<"b", "e">>,
     <<"u", "p">>,
     <<"b", "e", "d">>,
     <<"h", "u", "m">>,
     <<"s", "i", "t", " ", "u", "p">>,
     <<"b", "e", " ", "h", "u", "m", "b", "l", "e">>}

\* _words, the window filter, the window score and the refiner's offset
\* depend on the texts only; each is tabulated once over the texts above
TextWords == [s \in Lyrics \cup Transcripts |-> _words(s)]

\* lines 327-333 / 410-415: the windows the scan passes over
SkippedWindow == [t \in Transcripts |-> IsSkippedText(t) \/ _words(t) = <<>>]

-----------------------------------------------------------------------------
(* Fuzzy Line Matcher.                                                     *)

\* `a == b or SequenceMatcher(None, a, b).ratio() > thr`
WordsAgree(a, b, thr) == a = b \/ FracGT(ratio(a, b), thr)

\* sum(1 for a, b in zip(lw, tw[i : i + len(lw)]) if ...), i counted from 0
slide_matches(lw, tw, i, thr) ==
    Cardinality({k \in 1..Min(Len(lw), Len(tw) - i) :
                    WordsAgree(lw[k], tw[i + k], thr)})

\* range(max(1, len(tw) - len(lw) + 1))
Offsets(lw, tw) == 0..(Max(1, Len(tw) - Len(lw) + 1) - 1)

\* Strategy 1: len(lset & tset) / len(lset)
overlap(lw, tw) ==
    Frac(Cardinality(Range(lw) \cap Range(tw)), Cardinality(Range(lw)))

\* the largest element of a non-empty set of numbers
SetMax(S) == CHOOSE m \in S : \A n \in S : n <= m

consec_first_offset(lw, tw) ==
    IF Len(lw) >= 2
    THEN Frac(slide_matches(lw, tw, 0, CONSEC_RATIO), Len(lw))
    ELSE Zero

\* Strategy 2: best fraction of agreeing positions over all offsets
consec(lw, tw) ==
    IF Len(lw) >= 2
    THEN Frac(SetMax({slide_matches(lw, tw, i, CONSEC_RATIO) :
                         i \in Offsets(lw, tw)}),
              Len(lw))
    ELSE Zero

\* `score = max(overlap * 0.85, consec_score * 0.95, seq_score)`
weighted_max(o, c, seq) ==
    FracMax(FracMax(Frac(85 * o.num, 100 * o.den),
                    Frac(95 * c.num, 100 * c.den)), seq)

\* the score of one window, for a lyric and a transcript with at least one
\* word each
seg_score(lyric, text) ==
    weighted_max(overlap(_words(lyric), _words(text)),
                 consec(_words(lyric), _words(text)),
                 ratio(_clean(lyric), _clean(text)))

SegScore ==
    [l \in Lyrics, t \in Transcripts |->
        IF TextWords[l] = <<>> \/ TextWords[t] = <<>> THEN Zero
        ELSE seg_score(l, t)]

NoMatch == [seg |-> 0, score |-> Zero, scanned |-> 0]

is_better_ge(score, best_score) == FracGE(score, best_score)

\* line 358 / 434: `if score > best_score`
is_better(score, best_score) == FracGT(score, best_score)

\* lines 356-360: window k has been scored; acc.seg is the position of
\* best_seg in the window list (0 for None), acc.scanned counts the windows
\* scored so far
keep_best(acc, k, score) ==
    IF is_better(score, acc.score)
    THEN [seg |-> k, score |-> score, scanned |-> acc.scanned + 1]
    ELSE [acc EXCEPT !.scanned = @ + 1]

\* the `for seg in segments` loop from window k on
RECURSIVE match_loop(_, _, _, _)
match_loop(lyric, segs, k, acc) ==
    IF k > Len(segs) THEN acc
    ELSE IF SkippedWindow[segs[k].text]
    THEN match_loop(lyric, segs, k + 1, acc)
    ELSE match_loop(lyric, segs, k + 1,
                    keep_best(acc, k, SegScore[lyric, segs[k].text]))

match_lyric_to_segments_unguarded(lyric, segs) ==
    match_loop(lyric, segs, 1, NoMatch)

\* lines 319-362
match_lyric_to_segments(lyric, segs) ==
    IF TextWords[lyric] = <<>> THEN NoMatch
    ELSE match_loop(lyric, segs, 1, NoMatch)

-----------------------------------------------------------------------------
(* Timestamp Refiner.                                                      *)

\* lines 384-396 / 447-456: the loop over the offsets from offset i on, with
\* best_m agreeing positions seen at offset pos so far (r = m / len(lw), so
\* `r > best_r` compares the counts)
RECURSIVE best_pos_loop(_, _, _, _, _)
best_pos_loop(lw, tw, i, best_m, pos) ==
    IF i \notin Offsets(lw, tw) THEN pos
    ELSE IF slide_matches(lw, tw, i, REFINE_RATIO) > best_m
    THEN best_pos_loop(lw, tw, i + 1,
                       slide_matches(lw, tw, i, REFINE_RATIO), i)
    ELSE best_pos_loop(lw, tw, i + 1, best_m, pos)

\* the loop with `r >= best_r`
RECURSIVE best_pos_loop_latest(_, _, _, _, _)
best_pos_loop_latest(lw, tw, i, best_m, pos) ==
    IF i \notin Offsets(lw, tw) THEN pos
    ELSE IF slide_matches(lw, tw, i, REFINE_RATIO) >= best_m
    THEN best_pos_loop_latest(lw, tw, i + 1,
                              slide_matches(lw, tw, i, REFINE_RATIO), i)
    ELSE best_pos_loop_latest(lw, tw, i + 1, best_m, pos)

best_pos_latest(lw, tw) == best_pos_loop_latest(lw, tw, 0, 0, 0)

\* `best_pos = 0; best_r = 0.0` and the loop
best_pos(lw, tw) == best_pos_loop(lw, tw, 0, 0, 0)

BestPos == [l \in Lyrics, t \in Transcripts |-> best_pos(TextWords[l], TextWords[t])]

estimate_and_clamp_no_max(lw, tw, pos, seg_start, seg_dur, duration) ==
    LET d == IF seg_dur > 0 THEN Len(tw) ELSE 1
        gap == IF seg_dur > 0 THEN seg_dur ELSE FALLBACK_WPS_GAP
        est_start == seg_start * d + pos * gap
        est_dur == Max(MIN_PHRASE_DURATION * d, Len(lw) * gap)
        c_start == Max(0, Min(est_start, (duration - MIN_PHRASE_DURATION) * d))
        c_end == Min(duration * d,
                     Max(est_start + est_dur, c_start + MIN_PHRASE_DURATION * d))
    IN  {<<s, e>> : s \in Round3(c_start, d), e \in Round3(c_end, d)}

estimate_and_clamp_unclamped(lw, tw, pos, seg_start, seg_dur, duration) ==
    LET d == IF seg_dur > 0 THEN Len(tw) ELSE 1
        gap == IF seg_dur > 0 THEN seg_dur ELSE FALLBACK_WPS_GAP
        est_start == seg_start * d + pos * gap
        est_dur == Max(MIN_PHRASE_DURATION * d,
                       Min(Len(lw) * gap, MAX_PHRASE_DURATION * d))
        c_start == Max(0, Min(est_start, (duration - MIN_PHRASE_DURATION) * d))
        c_end == Max(est_start + est_dur, c_start + MIN_PHRASE_DURATION * d)
    IN  {<<s, e>> : s \in Round3(c_start, d), e \in Round3(c_end, d)}

\* lines 399-400 / 458-459: est_start before the clamping, as a numerator
\* over d = len(tw) (over 1 for a window of no duration, where
\* words_per_sec is 5.0)
est_start_before_clamp(tw, pos, seg_start, seg_dur) ==
    LET d == IF seg_dur > 0 THEN Len(tw) ELSE 1
        gap == IF seg_dur > 0 THEN seg_dur ELSE FALLBACK_WPS_GAP
    IN  seg_start * d + pos * gap

\* lines 398-408 / 458-466: the proportional estimate from the offset pos of
\* the lyric words lw in the window words tw, and its clamping.  All
\* intermediate times are numerators over the common denominator d.
estimate_and_clamp(lw, tw, pos, seg_start, seg_dur, duration) ==
    LET d == IF seg_dur > 0 THEN Len(tw) ELSE 1
        gap == IF seg_dur > 0 THEN seg_dur ELSE FALLBACK_WPS_GAP
        est_start == est_start_before_clamp(tw, pos, seg_start, seg_dur)
        est_dur == Max(MIN_PHRASE_DURATION * d,
                       Min(Len(lw) * gap, MAX_PHRASE_DURATION * d))
        c_start == Max(0, Min(est_start, (duration - MIN_PHRASE_DURATION) * d))
        c_end == Min(duration * d,
                     Max(est_start + est_dur, c_start + MIN_PHRASE_DURATION * d))
    IN  {<<s, e>> : s \in Round3(c_start, d), e \in Round3(c_end, d)}

\* the possible return values (start, end) of refine_timestamp
refine_timestamp(lyric, seg, song_duration) ==
    IF TextWords[seg.text] = <<>> \/ TextWords[lyric] = <<>>
    THEN {<<seg.start, Min(seg.end, seg.start + MAX_PHRASE_DURATION)>>}
    ELSE estimate_and_clamp(TextWords[lyric], TextWords[seg.text],
                            BestPos[lyric, seg.text],
                            seg.start, seg.end - seg.start, song_duration)

\* lines 438-466: what grok_align_line returns once the scan has ended with
\* the result m
grok_result(lyric, segs, duration, m) ==
    IF m.seg = 0 \/ ~FracGE(m.score, GROK_MIN_SCORE)
    THEN {[start |-> 0, end |-> MIN_PHRASE_DURATION, confidence |-> Zero,
           match |-> m, refined |-> FALSE]}
    ELSE {[start |-> se[1], end |-> se[2], confidence |-> c,
           match |-> m, refined |-> TRUE] :
             se \in estimate_and_clamp(
                       TextWords[lyric], TextWords[segs[m.seg].text],
                       BestPos[lyric, segs[m.seg].text], segs[m.seg].start,
                       segs[m.seg].end - segs[m.seg].start, duration),
             c \in RoundScore(m.score)}

\* the possible return values of grok_align_line, with the window it chose
grok_align_line(lyric, segs, duration) ==
    grok_result(lyric, segs, duration,
                IF TextWords[lyric] = <<>> THEN NoMatch
                ELSE match_loop(lyric, segs, 1, NoMatch))

-----------------------------------------------------------------------------
(* Acoustic Fallback Segmenter: estimate_line_timestamps.  The onset       *)
(* detector itself (librosa) is an input: the ascending list onset_times.  *)

ONSET_GAP == 300000                   \* `t - seg_end < 0.3`
EXTEND_SLACK == 1000000               \* `s + MAX_PHRASE_DURATION + 1.0`

\* lines 491-501: onsets closer than 0.3 s are chained into one raw segment
RECURSIVE group_onsets(_, _, _, _)
group_onsets(ts, seg_start, seg_end, acc) ==
    IF ts = <<>> THEN Append(acc, <<seg_start, seg_end>>)
    ELSE IF ts[1] - seg_end < ONSET_GAP
    THEN group_onsets(Tail(ts), seg_start, ts[1], acc)
    ELSE group_onsets(Tail(ts), ts[1], ts[1], Append(acc, <<seg_start, seg_end>>))

raw_segments(onsets) == group_onsets(Tail(onsets), onsets[1], onsets[1], <<>>)

bisect_longest_replace(segs) ==
    LET len(i) == segs[i][2] - segs[i][1]
        idx == CHOOSE i \in 1..Len(segs) :
                   \A j \in 1..Len(segs) :
                       len(j) < len(i) \/ (len(j) = len(i) /\ i <= j)
        s == segs[idx][1]
        e == segs[idx][2]
        mid == (s + e) \div 2
    IN  SubSeq(segs, 1, idx - 1) \o << <<s, mid>> >>
            \o SubSeq(segs, idx + 1, Len(segs))

\* lines 504-508: one pass of the bisect loop (max() keeps the first longest)
bisect_longest(segs) ==
    LET len(i) == segs[i][2] - segs[i][1]
        idx == CHOOSE i \in 1..Len(segs) :
                   \A j \in 1..Len(segs) :
                       len(j) < len(i) \/ (len(j) = len(i) /\ i <= j)
        s == segs[idx][1]
        e == segs[idx][2]
        mid == (s + e) \div 2
    IN  SubSeq(segs, 1, idx - 1) \o << <<s, mid>>, <<mid, e>> >>
            \o SubSeq(segs, idx + 1, Len(segs))

\* lines 511-514: one pass of the merge loop (min() keeps the first smallest)
merge_smallest_gap(segs) ==
    LET gap(i) == segs[i + 1][1] - segs[i][2]
        idx == CHOOSE i \in 1..(Len(segs) - 1) :
                   \A j \in 1..(Len(segs) - 1) :
                       gap(j) > gap(i) \/ (gap(j) = gap(i) /\ i <= j)
    IN  SubSeq(segs, 1, idx - 1) \o << <<segs[idx][1], segs[idx + 1][2]>> >>
            \o SubSeq(segs, idx + 2, Len(segs))

\* lines 516-523 with every end extended towards the duration
extended_entry_to_duration(segs, i, duration) ==
    LET s == segs[i][1]
        cap == s + MAX_PHRASE_DURATION + EXTEND_SLACK
        e == Max(Min(duration, cap), s + MIN_PHRASE_DURATION)
    IN  {<<rs, re>> : rs \in Round3(s, 1), re \in Round3(e, 1)}

\* lines 516-521 without the floor of line 522
extended_entry_unfloored(segs, i, duration) ==
    LET s == segs[i][1]
        cap == s + MAX_PHRASE_DURATION + EXTEND_SLACK
        e == IF i + 1 <= Len(segs) THEN Min(segs[i + 1][1], cap)
             ELSE Min(duration, cap)
    IN  {<<rs, re>> : rs \in Round3(s, 1), re \in Round3(e, 1)}

\* lines 516-523: the possible (start, end) of output entry i
extended_entry(segs, i, duration) ==
    LET s == segs[i][1]
        cap == s + MAX_PHRASE_DURATION + EXTEND_SLACK
        e0 == IF i + 1 <= Len(segs) THEN Min(segs[i + 1][1], cap)
              ELSE Min(duration, cap)
        e == Max(e0, s + MIN_PHRASE_DURATION)
    IN  {<<rs, re>> : rs \in Round3(s, 1), re \in Round3(e, 1)}

\* all sequences whose i-th element is drawn from choices[i]
RECURSIVE SeqProduct(_)
SeqProduct(choices) ==
    IF choices = <<>> THEN {<<>>}
    ELSE {<<c>> \o rest : c \in choices[1], rest \in SeqProduct(Tail(choices))}

extend_ends(segs, num_lines, duration) ==
    SeqProduct([i \in 1..Min(num_lines, Len(segs)) |->
                    extended_entry(segs, i, duration)])

\* lines 487-489: fewer than two onsets, equal slices of the whole duration
uniform_slices_shifted(duration, num_lines) ==
    [i \in 1..num_lines |->
        <<(i * duration) \div num_lines, ((i + 1) * duration) \div num_lines>>]

uniform_slices(duration, num_lines) ==
    [i \in 1..num_lines |->
        <<((i - 1) * duration) \div num_lines, (i * duration) \div num_lines>>]

RECURSIVE bisect_until(_, _)
bisect_until(segs, num_lines) ==
    IF Len(segs) < num_lines THEN bisect_until(bisect_longest(segs), num_lines)
    ELSE segs

RECURSIVE merge_until(_, _)
merge_until(segs, num_lines) ==
    IF Len(segs) > num_lines /\ Len(segs) > 1
    THEN merge_until(merge_smallest_gap(segs), num_lines)
    ELSE segs

\* the possible return values of estimate_line_timestamps
estimate_line_timestamps(onsets, duration, num_lines) ==
    IF Len(onsets) < 2 THEN {uniform_slices(duration, num_lines)}
    ELSE extend_ends(merge_until(bisect_until(raw_segments(onsets), num_lines),
                                 num_lines),
                     num_lines, duration)

-----------------------------------------------------------------------------
(* Window layout of the Windowed Transcriber (lines 241-254 / 353-381):    *)
(* window i starts at i * SEG_STEP while that is below the duration.       *)
(* rdur is the outcome of round(dur, 3).                                   *)

RECURSIVE window_bounds_disjoint(_, _, _)
window_bounds_disjoint(t, dur, rdur) ==
    IF t < dur
    THEN <<[start |-> t,
            end |-> IF t + SEG_DURATION <= dur THEN t + SEG_DURATION ELSE rdur]>>
         \o window_bounds_disjoint(t + SEG_DURATION, dur, rdur)
    ELSE <<>>

RECURSIVE window_bounds(_, _, _)
window_bounds(t, dur, rdur) ==
    IF t < dur
    THEN <<[start |-> t,
            end |-> IF t + SEG_DURATION <= dur THEN t + SEG_DURATION ELSE rdur]>>
         \o window_bounds(t + SEG_STEP, dur, rdur)
    ELSE <<>>

-----------------------------------------------------------------------------
(* Clip Chopper: chop_song_by_phrases (build) and rechop_song (realign).   *)
(* The waveform y is a sequence of runs [n, amp]: n consecutive samples of *)
(* amplitude amp / 1000.  Model waveforms hold a whole number of 10 ms     *)
(* frames, so that len(y) / sr is a whole number of microseconds.          *)

SAMPLE_RATE == 44100
MAX_CLIPS_PER_SONG == 50
PADDING == 50000                      \* `- 0.05` / `+ 0.05`
CHOP_TOLERANCE == 500000              \* build:   MAX_PHRASE_DURATION + 0.5
RECHOP_TOLERANCE == 1000000           \* realign: MAX_PHRASE_DURATION + 1.0
SILENCE_RMS == 5                      \* `rms < 0.005`, in thousandths

RECURSIVE wave_len(_)
wave_len(y) == IF y = <<>> THEN 0 ELSE y[1].n + wave_len(Tail(y))

\* floor(a * b / c) for a >= 0, b >= 0, c > 0, and whether a * b / c is a
\* whole number, computed without forming a * b
muldiv(a, b, c) == (a \div c) * b + ((a % c) * b) \div c
divides(a, b, c) == ((a % c) * b) % c = 0

\* `len(y) / sr` (sr / 1000000 = 441 / 10000)
wave_duration(y) == muldiv(wave_len(y), 10000, SAMPLE_RATE \div 100)

\* sum(clip ** 2) for clip = y[lo:hi], in millionths
RECURSIVE sum_squares(_, _, _)
sum_squares(y, lo, hi) ==
    IF y = <<>> THEN 0
    ELSE Max(0, Min(hi, y[1].n) - Max(lo, 0)) * y[1].amp * y[1].amp
         + sum_squares(Tail(y), lo - y[1].n, hi - y[1].n)

\* len(y[lo:hi])
slice_len(y, lo, hi) == Max(0, Min(hi, wave_len(y)) - Min(lo, wave_len(y)))

\* int(t * sr), t >= 0: when the exact product is a whole number the float
\* product may fall just below it
sample_index(t) ==
    IF t > 0 /\ divides(t, SAMPLE_RATE \div 100, 10000)
    THEN {muldiv(t, SAMPLE_RATE \div 100, 10000) - 1,
          muldiv(t, SAMPLE_RATE \div 100, 10000)}
    ELSE {muldiv(t, SAMPLE_RATE \div 100, 10000)}

\* the padded interval of a phrase
start_padded(ph) == Max(0, ph.start - PADDING)
end_padded(ph, duration) == Min(duration, ph.end + PADDING)

tolerance(fn) == IF fn = "rechop_song" THEN RECHOP_TOLERANCE ELSE CHOP_TOLERANCE

\* `pdur < MIN_PHRASE_DURATION or pdur > MAX_PHRASE_DURATION + tolerance`: the
\* possible outcomes of the test; when pdur lies exactly on a limit the
\* float difference e - s may fall on either side of it
rejects_duration(pdur, fn) ==
    IF pdur < MIN_PHRASE_DURATION \/ pdur > MAX_PHRASE_DURATION + tolerance(fn)
    THEN {TRUE}
    ELSE IF pdur = MIN_PHRASE_DURATION \/ pdur = MAX_PHRASE_DURATION + tolerance(fn)
    THEN {TRUE, FALSE}
    ELSE {FALSE}

is_silent_zero(sumsq, n) == {n > 0 /\ sumsq = 0}

\* `rms < 0.005` for rms = sqrt(mean(clip ** 2)): the possible outcomes.  An
\* empty clip has rms nan, which is not below the threshold; an rms of
\* exactly 0.005 may be measured on either side in float32
is_silent(sumsq, n) ==
    IF n = 0 THEN {FALSE}
    ELSE IF sumsq < SILENCE_RMS * SILENCE_RMS * n THEN {TRUE}
    ELSE IF sumsq = SILENCE_RMS * SILENCE_RMS * n THEN {TRUE, FALSE}
    ELSE {FALSE}

\* the largest amplitude of the waveform
RECURSIVE wave_peak(_)
wave_peak(y) == IF y = <<>> THEN 0 ELSE Max(y[1].amp, wave_peak(Tail(y)))

\* round(rms, 4) in ten-thousandths: the integers r nearest to
\* 10 * sqrt(sumsq / n), that is (2r - 1)^2 <= 400 * sumsq / n <= (2r + 1)^2;
\* "nan" for an empty clip
round4_rms(sumsq, n, peak) ==
    IF n = 0 THEN {"nan"}
    ELSE {r \in 0..(10 * peak) :
            /\ r = 0 \/ (2 * r - 1) * (2 * r - 1) <= muldiv(sumsq, 400, n)
            /\ \/ muldiv(sumsq, 400, n) < (2 * r + 1) * (2 * r + 1)
               \/ /\ muldiv(sumsq, 400, n) = (2 * r + 1) * (2 * r + 1)
                  /\ divides(sumsq, 400, n)}

\* str(n) and f"{n:03d}" for n >= 0
DigitChars == <<"0", "1", "2", "3", "4", "5", "6", "7", "8", "9">>

RECURSIVE decimal(_)
decimal(n) ==
    IF n < 10 THEN <<DigitChars[n + 1]>>
    ELSE decimal(n \div 10) \o <<DigitChars[(n % 10) + 1]>>

zero_fill(d, width) == [i \in 1..(width - Len(d)) |-> "0"] \o d

pad3(n) == zero_fill(decimal(n), 3)

\* "".join(c for c in s if c.isalnum() or c in "_-"), ASCII text
is_safe_char(c) ==
    c \in Range(Lowers) \cup Range(Uppers) \cup Digits \cup {"_", "-"}

safe_artist(artist) == SelectSeq(artist, is_safe_char)

\* title.replace(" ", "_") first
safe_title(title) ==
    SelectSeq([i \in 1..Len(title) |-> IF title[i] = " " THEN "_" ELSE title[i]],
              is_safe_char)

clip_name_no_song(sg, ci) ==
    safe_artist(sg.artist) \o <<"_">> \o safe_title(sg.title)
        \o <<"_", "p">> \o pad3(ci) \o <<".", "w", "a", "v">>

\* f"{song_idx:03d}_{safe_artist}_{safe_title}_p{ci:03d}.wav"
clip_name(sg, ci) ==
    pad3(sg.song_idx) \o <<"_">> \o safe_artist(sg.artist) \o <<"_">>
        \o safe_title(sg.title) \o <<"_", "p">> \o pad3(ci)
        \o <<".", "w", "a", "v">>

\* the record with the number of clips emitted so far as its clip_index
clip_record_running_index(sg, ph, ci, rounded, rms, fn) ==
    [clip_file |-> clip_name(sg, ci), artist |-> sg.artist, title |-> sg.title,
     lyric |-> ph.lyric, start_time |-> rounded[1], end_time |-> rounded[2],
     duration |-> rounded[3], rms |-> rms, song_index |-> sg.song_idx,
     clip_index |-> Len(clips_meta),
     alignment_confidence |->
        IF fn = "rechop_song" THEN ph.confidence ELSE "absent"]

\* the metadata record of an emitted clip
\* (rounded = <<round(start, 3), round(end, 3), round(phrase_dur, 3)>>)
clip_record(sg, ph, ci, rounded, rms, fn) ==
    [clip_file |-> clip_name(sg, ci), artist |-> sg.artist, title |-> sg.title,
     lyric |-> ph.lyric, start_time |-> rounded[1], end_time |-> rounded[2],
     duration |-> rounded[3], rms |-> rms, song_index |-> sg.song_idx,
     clip_index |-> ci,
     alignment_confidence |->
        IF fn = "rechop_song" THEN ph.confidence ELSE "absent"]

NoPass == [ci |-> -1, outcome |-> "none", pdur |-> 0, sumsq |-> 0, n |-> 0]

IdleChop ==
    /\ chopper = "none"
    /\ wave = <<>>
    /\ chop_song = [artist |-> <<>>, title |-> <<>>, song_idx |-> 0]
    /\ chop_phrases = <<>>
    /\ chop_ci = 0
    /\ clips_meta = <<>>
    /\ clip_files = {}
    /\ chop_last = NoPass

-----------------------------------------------------------------------------
(* Windowed Transcriber: transcribe_song (realign, concurrent batches) and *)
(* grok_transcribe_song (build, one window at a time with retries).  The   *)
(* capability is _grok_transcribe / _grok_transcribe_segment.              *)

PARALLEL_WORKERS == 5
ATTEMPTS == 3                         \* `for attempt in range(3)`

\* an unfilled slot of `segments = [None] * total`
None == [kind |-> "None"]

\* {"start": w["start"], "end": w["end"], "text": text}
window_dict(w, text) ==
    [kind |-> "dict", start |-> w.start, end |-> w.end, text |-> text]

\* json.dump: a list becomes an array, None becomes null, a dict an object
\* with its members in insertion order
json_value(x) ==
    IF x.kind = "None" THEN [json |-> "null"]
    ELSE [json |-> "object",
          members |-> << <<"start", x.start>>, <<"end", x.end>>,
                         <<"text", x.text>> >>]

json_dump(list) ==
    [json |-> "array", items |-> [i \in 1..Len(list) |-> json_value(list[i])]]

member(obj, key) == (CHOOSE m \in Range(obj.members) : m[1] = key)[2]

\* json.load
python_value(j) ==
    IF j.json = "null" THEN None
    ELSE [kind |-> "dict", start |-> member(j, "start"),
          end |-> member(j, "end"), text |-> member(j, "text")]

json_load(doc) == [i \in 1..Len(doc.items) |-> python_value(doc.items[i])]

\* no cache file of that name
Absent == [json |-> "absent"]

\* the file between `open(cache, "w")` and the end of json.dump: the text
\* written so far, which holds the first k entries and no closing bracket
truncated(doc, k) == [json |-> "truncated", items |-> SubSeq(doc.items, 1, k)]

cache_exists_never(c, name) == FALSE

\* `cache.exists()` for transcripts/{song_name}_grok_align.json
cache_exists(c, name) == c[name] # Absent

\* what one task of a batch hands to asyncio.gather(return_exceptions=True):
\* a str, or the exception that left _grok_transcribe_one
Pending == [done |-> FALSE, is_str |-> FALSE, value |-> <<>>]
StrResult(text) == [done |-> TRUE, is_str |-> TRUE, value |-> text]
ExcResult == [done |-> TRUE, is_str |-> FALSE, value |-> <<"E", "r", "r">>]

\* the outcome of _grok_transcribe_one for each thing the window's
\* transcription can do: the capability returns the transcript; it returns ""
\* after an API or connection error; wait_for times out; the capability
\* raises; librosa.resample raises before the try block
one_result(what, transcript) ==
    CASE what = "text" -> StrResult(transcript)
      [] what = "api_error" -> StrResult(<<>>)
      [] what = "timeout" -> StrResult(<<>>)
      [] what = "exception" -> StrResult(<<>>)
      [] what = "resample_raise" -> ExcResult

\* `text = result if isinstance(result, str) else ""`
text_of_result(result) == IF result.is_str THEN result.value ELSE <<>>

result_at_by_completion(results, order, p) == results[order[p]]

\* zip(batch, results): gather returns the results in the order of the
\* tasks it was given, whatever the order in which they finished
result_at(results, order, p) == results[p]

\* lines 275-277: the batch's results written into their slots
fill_slots(segs, windows, batch_start, results, order) ==
    [i \in 1..Len(segs) |->
        IF i - batch_start \in 1..Len(results)
        THEN window_dict(windows[i],
                 text_of_result(result_at(results, order, i - batch_start)))
        ELSE segs[i]]

initial_text_stale(segs) ==
    IF segs = <<>> THEN <<>> ELSE segs[Len(segs)].text

\* build line 364: `text = ""` at the top of each window's iteration
initial_text(segs) == <<>>

\* build lines 365-377: the text appended for a window, given what the
\* attempt that ended the retry loop did (`... or ""` for a returned value)
final_text(what, transcript, segs) ==
    CASE what = "text" -> transcript
      [] what = "api_error" -> <<>>
      [] OTHER -> initial_text(segs)

NoCall == [name |-> "", pipeline |-> "none", hit |-> FALSE, prior |-> Absent]
NoEvent == [idx |-> -1, what |-> "none"]

IdleTranscribe ==
    /\ cache = [n \in {} |-> Absent]
    /\ run_result = [n \in {} |-> Absent]
    /\ tr_pc = "off"
    /\ tr_call = NoCall
    /\ tr_windows = <<>>
    /\ tr_segments = <<>>
    /\ tr_batch_start = 0
    /\ tr_results = <<>>
    /\ tr_done_order = <<>>
    /\ tr_attempt = 0
    /\ tr_failed = {}
    /\ tr_invocations = 0
    /\ tr_ret = <<>>
    /\ tr_last = NoEvent

-----------------------------------------------------------------------------
(* Inputs of the alignment model.                                          *)

MaxLines == 2

\* song durations (multiples of 60 microseconds, so that the equal slices
\* of the uniform division are whole numbers of microseconds)
Durations == {300000, 670500, 5000100, 5000700, 10000000}

AlignOnsets == {<<>>, <<400000, 1200000, 3200000>>}

SeqsUpTo(S, n) == UNION {[1..k -> S] : k \in 1..n}

\* the phrase file realign reads: line i with the timestamps of an earlier run
OldPhrases(ls) ==
    [i \in 1..Len(ls) |->
        [lyric |-> ls[i], start |-> (i - 1) * 700000,
         end |-> (i - 1) * 700000 + 2500000, line_index |-> i - 1]]

\* last_match: the lyric of the pass, the matcher's best_seg (position in the
\* window list, 0 for None), best_score and number of windows scored, whether
\* the refiner ran and the (start, end) it returned, the confidence the pass
\* worked with after rounding, and the branch the caller took
NoLine == [lyric |-> <<>>, seg |-> 0, score |-> Zero, scanned |-> 0,
           refined |-> FALSE, start |-> 0, end |-> 0, confidence |-> Zero,
           branch |-> "none"]

IdleEstimate ==
    /\ est_pc = "idle"
    /\ est_num_lines = 0
    /\ est_segments = <<>>
    /\ est_timestamps = <<>>

NoResponse == [kind |-> "none", items |-> <<>>]

IdleRun ==
    /\ run_pc = "idle"
    /\ run_cfg = [pipeline |-> "none", key |-> FALSE, dry_run |-> FALSE,
                  use_grok |-> FALSE, force |-> FALSE]
    /\ run_songs = <<>>
    /\ run_lyrics = {}
    /\ run_handled = {}
    /\ run_done = {}
    /\ run_all_clips = <<>>
    /\ fs_clips = {}
    /\ fs_meta = [written |-> FALSE, files |-> {}]
    /\ run_log = {}

IdleSelect ==
    /\ sel_pc = "idle"
    /\ sel_env = [entry |-> "none", use_grok |-> FALSE, key |-> FALSE]
    /\ sel_response = NoResponse
    /\ sel_timestamps = <<>>

InitAlign ==
    /\ IdleEstimate
    /\ IdleChop
    /\ IdleTranscribe
    /\ IdleSelect
    /\ IdleRun
    /\ pipeline \in {"realign", "build"}
    /\ song_dur \in Durations
    /\ \E rdur \in Round3(song_dur, 1) :
         LET w == window_bounds(0, song_dur, rdur)
         IN  segments \in
               {[i \in 1..Len(w) |->
                    [start |-> w[i].start, end |-> w[i].end, text |-> txt[i]]] :
                  txt \in [1..Len(w) -> Transcripts]}
               \cup (IF pipeline = "build" THEN {<<>>} ELSE {})
    /\ \E ls \in SeqsUpTo(Lyrics, MaxLines) :
         IF pipeline = "realign"
         THEN /\ song_phrases = OldPhrases(ls)
              /\ lines = <<>>
              /\ selected_indices = <<>>
              /\ onset_times = <<>>
         ELSE /\ song_phrases = <<>>
              /\ lines = ls
              /\ selected_indices \in {[i \in 1..Len(ls) |-> i - 1],
                                       <<Len(ls) - 1>>}
              /\ onset_times \in AlignOnsets
    /\ ph_pos = 0
    /\ out_phrases = <<>>
    /\ last_match = NoLine
    /\ stats = [matched |-> 0, unmatched |-> 0, kept_old |-> 0]
    /\ phrases_file = song_phrases
    /\ song_pc = "loop"

-----------------------------------------------------------------------------
(* realign_lyrics.main, the processing of one song (lines 605-674).        *)

\* lines 607-610
VocalText == [t \in Transcripts |-> ~IsSkippedText(t)]

vocal_segs(segs) == SelectSeq(segs, LAMBDA sg : VocalText[sg.text])

\* lines 613-622 without the counting of line 615
RealignNoVocalUncounted ==
    /\ pipeline = "realign"
    /\ ph_pos = 0
    /\ song_phrases # <<>>
    /\ vocal_segs(segments) = <<>>
    /\ ph_pos' = Len(song_phrases)
    /\ last_match' = [NoLine EXCEPT !.branch = "no_vocal"]
    /\ UNCHANGED <<pipeline, song_dur, segments, onset_times, lines,
                   selected_indices, song_phrases, out_phrases, stats>>
    /\ UNCHANGED <<phrases_file, song_pc>>
    /\ UNCHANGED <<est_vars, chop_vars, tr_vars, sel_vars, run_vars>>

\* lines 613-622: no vocal window, the old timestamps are kept as they are
RealignNoVocal ==
    /\ pipeline = "realign"
    /\ ph_pos = 0
    /\ song_phrases # <<>>
    /\ vocal_segs(segments) = <<>>
    /\ stats' = [stats EXCEPT !.kept_old = @ + Len(song_phrases)]
    /\ ph_pos' = Len(song_phrases)
    /\ last_match' = [NoLine EXCEPT !.branch = "no_vocal"]
    /\ UNCHANGED <<pipeline, song_dur, segments, onset_times, lines,
                   selected_indices, song_phrases, out_phrases>>
    /\ UNCHANGED <<phrases_file, song_pc>>
    /\ UNCHANGED <<est_vars, chop_vars, tr_vars, sel_vars, run_vars>>

\* lines 642-648
refined_phrase(ph, se, confidence) ==
    [lyric |-> ph.lyric, start |-> se[1], end |-> se[2],
     line_index |-> ph.line_index, confidence |-> confidence,
     has_confidence |-> TRUE]

\* lines 660-666 with the timestamps reset instead of kept
kept_old_phrase_reset(ph, confidence) ==
    [lyric |-> ph.lyric, start |-> 0, end |-> 0,
     line_index |-> ph.line_index, confidence |-> confidence,
     has_confidence |-> TRUE]

\* lines 660-666
kept_old_phrase(ph, confidence) ==
    [lyric |-> ph.lyric, start |-> ph.start, end |-> ph.end,
     line_index |-> ph.line_index, confidence |-> confidence,
     has_confidence |-> TRUE]

\* lines 630-671: one pass of `for ph in song["phrases"]`
RealignPhrase ==
    /\ pipeline = "realign"
    /\ vocal_segs(segments) # <<>>
    /\ ph_pos < Len(song_phrases)
    /\ \E ph \in {song_phrases[ph_pos + 1]} :
       \E m \in {match_lyric_to_segments(ph.lyric, segments)} :
       \E confidence \in RoundScore(m.score) :
             IF m.seg # 0 /\ FracGE(m.score, MIN_CONFIDENCE)
             THEN \E se \in refine_timestamp(ph.lyric, segments[m.seg], song_dur) :
                    /\ out_phrases' = Append(out_phrases,
                                             refined_phrase(ph, se, confidence))
                    /\ stats' = [stats EXCEPT !.matched = @ + 1]
                    /\ last_match' = [lyric |-> ph.lyric, seg |-> m.seg,
                                      score |-> m.score, scanned |-> m.scanned,
                                      refined |-> TRUE, start |-> se[1],
                                      end |-> se[2], confidence |-> confidence,
                                      branch |-> "refined"]
             ELSE /\ out_phrases' = Append(out_phrases,
                                           kept_old_phrase(ph, confidence))
                  /\ stats' = [stats EXCEPT !.unmatched = @ + 1]
                  /\ last_match' = [lyric |-> ph.lyric, seg |-> m.seg,
                                    score |-> m.score, scanned |-> m.scanned,
                                    refined |-> FALSE, start |-> 0, end |-> 0,
                                    confidence |-> confidence,
                                    branch |-> "kept_old"]
    /\ ph_pos' = ph_pos + 1
    /\ UNCHANGED <<pipeline, song_dur, segments, onset_times, lines,
                   selected_indices, song_phrases>>
    /\ UNCHANGED <<phrases_file, song_pc>>
    /\ UNCHANGED <<est_vars, chop_vars, tr_vars, sel_vars, run_vars>>

\* lines 676-677: `if args.dry_run: continue` after the phrase loop
RealignDryRun ==
    /\ pipeline = "realign"
    /\ vocal_segs(segments) # <<>>
    /\ ph_pos = Len(song_phrases)
    /\ song_pc = "loop"
    /\ song_pc' = "dry_run"
    /\ UNCHANGED <<pipeline, song_dur, segments, onset_times, lines,
                   selected_indices, song_phrases, ph_pos, out_phrases,
                   last_match, stats, phrases_file>>
    /\ UNCHANGED <<est_vars, chop_vars, tr_vars, sel_vars, run_vars>>

\* lines 679-682: json.dump(corrected_phrases) over the phrase file
RealignSave ==
    /\ pipeline = "realign"
    /\ vocal_segs(segments) # <<>>
    /\ ph_pos = Len(song_phrases)
    /\ song_pc = "loop"
    /\ phrases_file' = out_phrases
    /\ song_pc' = "saved"
    /\ UNCHANGED <<pipeline, song_dur, segments, onset_times, lines,
                   selected_indices, song_phrases, ph_pos, out_phrases,
                   last_match, stats>>
    /\ UNCHANGED <<est_vars, chop_vars, tr_vars, sel_vars, run_vars>>

-----------------------------------------------------------------------------
(* build_rap_db.grok_select_phrases, step 3 (lines 620-668).               *)

\* lines 631-637
grok_phrase(lyric, idx, r) ==
    [lyric |-> lyric, start |-> r.start, end |-> r.end, line_index |-> idx,
     confidence |-> r.confidence, has_confidence |-> TRUE]

\* lines 645-651
onset_phrase(lyric, idx, onset_timestamps) ==
    [lyric |-> lyric, start |-> onset_timestamps[idx + 1][1],
     end |-> onset_timestamps[idx + 1][2], line_index |-> idx,
     confidence |-> Zero, has_confidence |-> TRUE]

\* lines 626-651: one pass of `for idx in selected_indices`
GrokSelectLine ==
    /\ pipeline = "build"
    /\ segments # <<>>
    /\ ph_pos < Len(selected_indices)
    /\ LET idx == selected_indices[ph_pos + 1]
           lyric == lines[idx + 1]
       IN  \E r \in grok_align_line(lyric, segments, song_dur) :
             /\ IF FracGE(r.confidence, GROK_ACCEPT)
                THEN out_phrases' = Append(out_phrases, grok_phrase(lyric, idx, r))
                ELSE \E onset_timestamps \in
                        estimate_line_timestamps(onset_times, song_dur, Len(lines)) :
                       IF idx < Len(onset_timestamps)
                       THEN out_phrases' = Append(out_phrases,
                                    onset_phrase(lyric, idx, onset_timestamps))
                       ELSE out_phrases' = out_phrases
             /\ last_match' = [lyric |-> lyric, seg |-> r.match.seg,
                               score |-> r.match.score,
                               scanned |-> r.match.scanned,
                               refined |-> r.refined, start |-> r.start,
                               end |-> r.end, confidence |-> r.confidence,
                               branch |-> IF FracGE(r.confidence, GROK_ACCEPT)
                                          THEN "refined" ELSE "onset"]
    /\ ph_pos' = ph_pos + 1
    /\ UNCHANGED <<pipeline, song_dur, segments, onset_times, lines,
                   selected_indices, song_phrases, stats>>
    /\ UNCHANGED <<phrases_file, song_pc>>
    /\ UNCHANGED <<est_vars, chop_vars, tr_vars, sel_vars, run_vars>>

\* lines 655-666: no window list at all, every selected line gets its onset
\* timestamp and no confidence
GrokFullFallback ==
    /\ pipeline = "build"
    /\ segments = <<>>
    /\ ph_pos = 0
    /\ \E timestamps \in estimate_line_timestamps(onset_times, song_dur, Len(lines)) :
         out_phrases' =
            [k \in 1..Len(selected_indices) |->
                [lyric |-> lines[selected_indices[k] + 1],
                 start |-> timestamps[selected_indices[k] + 1][1],
                 end |-> timestamps[selected_indices[k] + 1][2],
                 line_index |-> selected_indices[k],
                 confidence |-> Zero, has_confidence |-> FALSE]]
    /\ ph_pos' = Len(selected_indices)
    /\ last_match' = [NoLine EXCEPT !.branch = "full_onset"]
    /\ UNCHANGED <<pipeline, song_dur, segments, onset_times, lines,
                   selected_indices, song_phrases, stats>>
    /\ UNCHANGED <<phrases_file, song_pc>>
    /\ UNCHANGED <<est_vars, chop_vars, tr_vars, sel_vars, run_vars>>

NextAlign ==
    \/ RealignNoVocal \/ RealignPhrase \/ RealignDryRun \/ RealignSave
    \/ GrokSelectLine \/ GrokFullFallback

SpecAlign == InitAlign /\ [][NextAlign]_vars

-----------------------------------------------------------------------------
(* estimate_line_timestamps, statement by statement.                       *)

MaxN == 4
MaxOnsets == 4
OnsetSlots == 6

\* onset times the detector may report: multiples of 0.2 s inside the song
\* (neighbouring slots chain into one raw segment, others do not); with
\* backtracking two onsets may fall on the same instant
OnsetGrid(dur) == {k * 200000 : k \in 1..OnsetSlots} \cap 0..dur

OnsetLists(dur) ==
    {<<>>} \cup
    {o \in SeqsUpTo(OnsetGrid(dur), MaxOnsets) :
        \A i \in 1..(Len(o) - 1) : o[i] <= o[i + 1]}

IdleAlign ==
    /\ pipeline = "none"
    /\ segments = <<>>
    /\ lines = <<>>
    /\ selected_indices = <<>>
    /\ song_phrases = <<>>
    /\ ph_pos = 0
    /\ out_phrases = <<>>
    /\ last_match = NoLine
    /\ stats = [matched |-> 0, unmatched |-> 0, kept_old |-> 0]
    /\ phrases_file = <<>>
    /\ song_pc = "idle"

InitOnset ==
    /\ IdleAlign
    /\ IdleChop
    /\ IdleTranscribe
    /\ IdleSelect
    /\ IdleRun
    /\ song_dur \in Durations
    /\ onset_times \in OnsetLists(song_dur)
    /\ est_num_lines \in 1..MaxN
    /\ est_pc = "start"
    /\ est_segments = <<>>
    /\ est_timestamps = <<>>

\* lines 487-489: the degenerate case returns at once
EstUniform ==
    /\ est_pc = "start"
    /\ Len(onset_times) < 2
    /\ est_timestamps' = uniform_slices(song_dur, est_num_lines)
    /\ est_pc' = "done"
    /\ UNCHANGED <<est_num_lines, est_segments>>
    /\ UNCHANGED <<align_vars, chop_vars, tr_vars, sel_vars, run_vars>>

\* lines 491-501
EstGroup ==
    /\ est_pc = "start"
    /\ Len(onset_times) >= 2
    /\ est_segments' = raw_segments(onset_times)
    /\ est_pc' = "bisect"
    /\ UNCHANGED <<est_num_lines, est_timestamps>>
    /\ UNCHANGED <<align_vars, chop_vars, tr_vars, sel_vars, run_vars>>

\* lines 503-508: one pass of `while len(segments) < num_lines`
EstBisect ==
    /\ est_pc = "bisect"
    /\ Len(est_segments) < est_num_lines
    /\ est_segments' = bisect_longest(est_segments)
    /\ UNCHANGED <<est_pc, est_num_lines, est_timestamps>>
    /\ UNCHANGED <<align_vars, chop_vars, tr_vars, sel_vars, run_vars>>

\* line 503 false: on to the merge loop
EstBisectDone ==
    /\ est_pc = "bisect"
    /\ ~(Len(est_segments) < est_num_lines)
    /\ est_pc' = "merge"
    /\ UNCHANGED <<est_num_lines, est_segments, est_timestamps>>
    /\ UNCHANGED <<align_vars, chop_vars, tr_vars, sel_vars, run_vars>>

\* lines 510-514: one pass of `while len(segments) > num_lines and len(segments) > 1`
EstMerge ==
    /\ est_pc = "merge"
    /\ Len(est_segments) > est_num_lines /\ Len(est_segments) > 1
    /\ est_segments' = merge_smallest_gap(est_segments)
    /\ UNCHANGED <<est_pc, est_num_lines, est_timestamps>>
    /\ UNCHANGED <<align_vars, chop_vars, tr_vars, sel_vars, run_vars>>

\* lines 516-525: the merge loop is over, extend the ends and return
EstExtend ==
    /\ est_pc = "merge"
    /\ ~(Len(est_segments) > est_num_lines /\ Len(est_segments) > 1)
    /\ est_timestamps' \in extend_ends(est_segments, est_num_lines, song_dur)
    /\ est_pc' = "done"
    /\ UNCHANGED <<est_num_lines, est_segments>>
    /\ UNCHANGED <<align_vars, chop_vars, tr_vars, sel_vars, run_vars>>

NextOnset ==
    EstUniform \/ EstGroup \/ EstBisect \/ EstBisectDone \/ EstMerge \/ EstExtend

SpecOnset == InitOnset /\ [][NextOnset]_vars

\* the call runs on its own thread of control: a step that can be taken is
\* eventually taken
SpecOnsetFair == SpecOnset /\ WF_vars(NextOnset)

-----------------------------------------------------------------------------
(* The phrase loop of the Clip Chopper, one pass per step.                 *)

MaxChopPhrases == 2

Run(seconds10, amp) == [n |-> seconds10 * (SAMPLE_RATE \div 10), amp |-> amp]

\* six seconds of loud audio; of digital silence; of audio at exactly the
\* threshold; one second of silence, one second of faint audio and four
\* seconds of loud audio; half a second of loud audio
Waves ==
    {<<Run(60, 50)>>,
     <<Run(60, 0)>>,
     <<Run(60, 5)>>,
     <<Run(10, 0), Run(10, 4), Run(40, 50)>>,
     <<Run(5, 50)>>}

\* (start, end) of the phrases handed to the chopper, microseconds
ChopTimes ==
    {<<0, 500000>>, <<0, 550000>>, <<1000000, 1500000>>, <<1000000, 2000000>>,
     <<1000000, 5400000>>, <<1000000, 5900000>>, <<1000000, 6500000>>,
     <<5500000, 7000000>>, <<3000000, 2000000>>, <<5000000, 5950000>>}

ChopPhrases ==
    {[lyric |-> <<"b", "e">>, start |-> t[1], end |-> t[2], line_index |-> 0,
      confidence |-> Frac(850, 1000)] : t \in ChopTimes}

ChopSong == [artist |-> <<"Y", "e">>, title |-> <<"B", "e", " ", "U", "!">>,
             song_idx |-> 7]

\* phrase lists longer than MAX_CLIPS_PER_SONG: every phrase is loud and of
\* good length, but for at most one that is too short (the first, or the
\* last one inside the cap)
BeyondCap == 2

LongPhrase(t) ==
    [lyric |-> <<"b", "e">>, start |-> t[1], end |-> t[2], line_index |-> 0,
     confidence |-> Frac(850, 1000)]

LongChopLists ==
    {[i \in 1..(MAX_CLIPS_PER_SONG + BeyondCap) |->
         IF i = short THEN LongPhrase(<<0, 500000>>)
         ELSE LongPhrase(<<1001000, 2003000>>)] :
     short \in {0, 1, MAX_CLIPS_PER_SONG}}

InitChop ==
    /\ IdleAlign
    /\ song_dur = 0
    /\ onset_times = <<>>
    /\ IdleEstimate
    /\ IdleTranscribe
    /\ IdleSelect
    /\ IdleRun
    /\ chopper \in {"chop_song_by_phrases", "rechop_song"}
    /\ \/ /\ wave \in Waves
          /\ chop_phrases \in SeqsUpTo(ChopPhrases, MaxChopPhrases)
       \/ /\ wave = <<Run(60, 50)>>
          /\ chop_phrases \in LongChopLists
    /\ chop_song = ChopSong
    /\ chop_ci = 0
    /\ clips_meta = <<>>
    /\ clip_files = {}
    /\ chop_last = NoPass

\* `for ci, phrase in enumerate(phrases[:MAX_CLIPS_PER_SONG])` has a next pass
ChopHasNext == chop_ci < Min(Len(chop_phrases), MAX_CLIPS_PER_SONG)

ChopPhraseNow == chop_phrases[chop_ci + 1]

ChopPdur ==
    end_padded(ChopPhraseNow, wave_duration(wave)) - start_padded(ChopPhraseNow)

\* the pass ends at the first `continue`
ChopRejectDuration ==
    /\ chopper # "none"
    /\ ChopHasNext
    /\ TRUE \in rejects_duration(ChopPdur, chopper)
    /\ chop_last' = [ci |-> chop_ci, outcome |-> "duration", pdur |-> ChopPdur,
                     sumsq |-> 0, n |-> 0]
    /\ chop_ci' = chop_ci + 1
    /\ UNCHANGED <<chopper, wave, chop_song, chop_phrases, clips_meta, clip_files>>
    /\ UNCHANGED <<align_vars, est_vars, tr_vars, sel_vars, run_vars>>

\* the pass ends at the second `continue`
ChopRejectSilent ==
    /\ chopper # "none"
    /\ ChopHasNext
    /\ FALSE \in rejects_duration(ChopPdur, chopper)
    /\ \E lo \in sample_index(start_padded(ChopPhraseNow)),
          hi \in sample_index(end_padded(ChopPhraseNow, wave_duration(wave))) :
         /\ TRUE \in is_silent(sum_squares(wave, lo, hi), slice_len(wave, lo, hi))
         /\ chop_last' = [ci |-> chop_ci, outcome |-> "silent", pdur |-> ChopPdur,
                          sumsq |-> sum_squares(wave, lo, hi),
                          n |-> slice_len(wave, lo, hi)]
    /\ chop_ci' = chop_ci + 1
    /\ UNCHANGED <<chopper, wave, chop_song, chop_phrases, clips_meta, clip_files>>
    /\ UNCHANGED <<align_vars, est_vars, tr_vars, sel_vars, run_vars>>

\* the pass writes the audio file and appends the record
ChopEmit ==
    /\ chopper # "none"
    /\ ChopHasNext
    /\ FALSE \in rejects_duration(ChopPdur, chopper)
    /\ \E lo \in sample_index(start_padded(ChopPhraseNow)),
          hi \in sample_index(end_padded(ChopPhraseNow, wave_duration(wave))) :
         /\ FALSE \in is_silent(sum_squares(wave, lo, hi), slice_len(wave, lo, hi))
         /\ clip_files' = {f \in clip_files : f.name # clip_name(chop_song, chop_ci)}
                \cup {[name |-> clip_name(chop_song, chop_ci), lo |-> lo, hi |-> hi]}
         /\ \E rounded \in Round3(ChopPhraseNow.start, 1)
                              \X Round3(ChopPhraseNow.end, 1)
                              \X Round3(ChopPdur, 1),
               rms \in round4_rms(sum_squares(wave, lo, hi),
                                  slice_len(wave, lo, hi), wave_peak(wave)) :
              clips_meta' = Append(clips_meta,
                                clip_record(chop_song, ChopPhraseNow, chop_ci,
                                            rounded, rms, chopper))
         /\ chop_last' = [ci |-> chop_ci, outcome |-> "emitted", pdur |-> ChopPdur,
                          sumsq |-> sum_squares(wave, lo, hi),
                          n |-> slice_len(wave, lo, hi)]
    /\ chop_ci' = chop_ci + 1
    /\ UNCHANGED <<chopper, wave, chop_song, chop_phrases>>
    /\ UNCHANGED <<align_vars, est_vars, tr_vars, sel_vars, run_vars>>

NextChop == ChopRejectDuration \/ ChopRejectSilent \/ ChopEmit

SpecChop == InitChop /\ [][NextChop]_vars

-----------------------------------------------------------------------------
(* Calls of the transcriber, and the caller's --force / --force-realign.   *)
(* A run of main makes its calls for one recording name one after the      *)
(* other (realign: the song loop; build: one task per song index).         *)

\* the recordings and their durations: six windows and two windows
Names == {"a", "b"}
RecordingDur == [n \in Names |-> IF n = "a" THEN 27500000 ELSE 7000000]

\* what the capability hears in window idx of a recording
Transcript(name, idx) == <<name, "_", DigitChars[idx + 1]>>

Outcomes == {"text", "api_error", "timeout", "exception"}

InitTranscribe ==
    /\ IdleAlign
    /\ song_dur = 0
    /\ onset_times = <<>>
    /\ IdleEstimate
    /\ IdleChop
    /\ IdleSelect
    /\ IdleRun
    /\ cache = [n \in Names |-> Absent]
    /\ run_result = [n \in Names |-> Absent]
    /\ tr_pc = "idle"
    /\ tr_call = NoCall
    /\ tr_windows = <<>>
    /\ tr_segments = <<>>
    /\ tr_batch_start = 0
    /\ tr_results = <<>>
    /\ tr_done_order = <<>>
    /\ tr_attempt = 0
    /\ tr_failed = {}
    /\ tr_invocations = 0
    /\ tr_ret = <<>>
    /\ tr_last = NoEvent

\* no call is in progress
BetweenCalls == tr_pc \in {"idle", "returned", "raised", "killed"}

\* lines 232-236 / 345-349: the cache file exists and json.load reads it;
\* the content is returned, or JSONDecodeError leaves the transcriber when
\* the text is not a complete document
TrCacheHit ==
    /\ BetweenCalls
    /\ \E name \in Names, pl \in {"realign", "build"} :
         /\ cache_exists(cache, name)
         /\ tr_call' = [name |-> name, pipeline |-> pl, hit |-> TRUE,
                        prior |-> run_result[name]]
         /\ IF cache[name].json = "array"
            THEN /\ tr_ret' = json_load(cache[name])
                 /\ tr_pc' = "returned"
                 /\ tr_last' = NoEvent
            ELSE /\ tr_ret' = <<>>
                 /\ tr_pc' = "raised"
                 /\ tr_last' = [idx |-> -1, what |-> "json_error"]
    /\ tr_windows' = <<>>
    /\ tr_segments' = <<>>
    /\ tr_batch_start' = 0
    /\ tr_results' = <<>>
    /\ tr_done_order' = <<>>
    /\ tr_attempt' = 0
    /\ tr_failed' = {}
    /\ tr_invocations' = 0
    /\ UNCHANGED <<cache, run_result>>
    /\ UNCHANGED <<align_vars, est_vars, chop_vars, sel_vars, run_vars>>

\* the windows of a recording as both transcribers lay them out
windows_of(name) ==
    {window_bounds(0, RecordingDur[name], rdur) :
        rdur \in Round3(RecordingDur[name], 1)}

\* lines 238-259: no cache file; the windows are built and the slots pre-sized
RealignStart ==
    /\ BetweenCalls
    /\ \E name \in Names :
         /\ ~cache_exists(cache, name)
         /\ tr_call' = [name |-> name, pipeline |-> "realign", hit |-> FALSE,
                        prior |-> run_result[name]]
         /\ \E w \in windows_of(name) :
              /\ tr_windows' = w
              /\ tr_segments' = [i \in 1..Len(w) |-> None]
    /\ tr_pc' = "batch"
    /\ tr_batch_start' = 0
    /\ tr_results' = <<>>
    /\ tr_done_order' = <<>>
    /\ tr_attempt' = 0
    /\ tr_failed' = {}
    /\ tr_invocations' = 0
    /\ tr_ret' = <<>>
    /\ tr_last' = NoEvent
    /\ UNCHANGED <<cache, run_result>>
    /\ UNCHANGED <<align_vars, est_vars, chop_vars, sel_vars, run_vars>>

batch_len_unbounded(total, batch_start) == total - batch_start

\* line 269: len(windows[batch_start : batch_start + PARALLEL_WORKERS])
batch_len(total, batch_start) == Min(PARALLEL_WORKERS, total - batch_start)

\* lines 268-273: the next batch of at most PARALLEL_WORKERS tasks is started
RealignLaunchBatch ==
    /\ tr_pc = "batch"
    /\ tr_batch_start < Len(tr_windows)
    /\ tr_results' = [p \in 1..batch_len(Len(tr_windows), tr_batch_start) |->
                         Pending]
    /\ tr_done_order' = <<>>
    /\ tr_pc' = "gather"
    /\ UNCHANGED <<cache, run_result, tr_call, tr_windows, tr_segments,
                   tr_batch_start, tr_attempt, tr_failed, tr_invocations,
                   tr_ret, tr_last>>
    /\ UNCHANGED <<align_vars, est_vars, chop_vars, sel_vars, run_vars>>

\* lines 205-214: any task of the batch that is still running finishes
RealignTaskDone ==
    /\ tr_pc = "gather"
    /\ \E p \in DOMAIN tr_results, what \in Outcomes \cup {"resample_raise"} :
         /\ ~tr_results[p].done
         /\ tr_results' =
              [tr_results EXCEPT ![p] =
                  one_result(what, Transcript(tr_call.name, tr_batch_start + p - 1))]
         /\ tr_done_order' = Append(tr_done_order, p)
         /\ tr_failed' = IF what = "text" THEN tr_failed
                         ELSE tr_failed \cup {tr_batch_start + p - 1}
         /\ tr_invocations' = IF what = "resample_raise" THEN tr_invocations
                              ELSE tr_invocations + 1
         /\ tr_last' = [idx |-> tr_batch_start + p - 1,
                        what |-> IF what \in {"text", "resample_raise"}
                                 THEN what ELSE "no_text"]
    /\ UNCHANGED <<cache, run_result, tr_pc, tr_call, tr_windows, tr_segments,
                   tr_batch_start, tr_attempt, tr_ret>>
    /\ UNCHANGED <<align_vars, est_vars, chop_vars, sel_vars, run_vars>>

\* lines 273-285: gather has returned; the results go into their slots
RealignBatchJoin ==
    /\ tr_pc = "gather"
    /\ \A p \in DOMAIN tr_results : tr_results[p].done
    /\ tr_segments' = fill_slots(tr_segments, tr_windows, tr_batch_start,
                                 tr_results, tr_done_order)
    /\ tr_batch_start' = tr_batch_start + PARALLEL_WORKERS
    /\ tr_pc' = "batch"
    /\ tr_results' = <<>>
    /\ tr_done_order' = <<>>
    /\ UNCHANGED <<cache, run_result, tr_call, tr_windows, tr_attempt,
                   tr_failed, tr_invocations, tr_ret, tr_last>>
    /\ UNCHANGED <<align_vars, est_vars, chop_vars, sel_vars, run_vars>>

\* line 288: all batches done; `open(cache, "w")` creates the file empty
RealignFinish ==
    /\ tr_pc = "batch"
    /\ tr_batch_start >= Len(tr_windows)
    /\ cache' = [cache EXCEPT ![tr_call.name] =
                    truncated(json_dump(tr_segments), 0)]
    /\ tr_pc' = "write"
    /\ UNCHANGED <<run_result, tr_ret, tr_call, tr_windows, tr_segments, tr_batch_start, tr_results,
                   tr_done_order, tr_attempt, tr_failed, tr_invocations, tr_last>>
    /\ UNCHANGED <<align_vars, est_vars, chop_vars, sel_vars, run_vars>>

\* build, lines 351-355: no cache file; the loop starts with an empty list
BuildStart ==
    /\ BetweenCalls
    /\ \E name \in Names :
         /\ ~cache_exists(cache, name)
         /\ tr_call' = [name |-> name, pipeline |-> "build", hit |-> FALSE,
                        prior |-> run_result[name]]
         /\ tr_windows' \in windows_of(name)
    /\ tr_segments' = <<>>
    /\ tr_pc' = "seq"
    /\ tr_batch_start' = 0
    /\ tr_results' = <<>>
    /\ tr_done_order' = <<>>
    /\ tr_attempt' = 0
    /\ tr_failed' = {}
    /\ tr_invocations' = 0
    /\ tr_ret' = <<>>
    /\ tr_last' = NoEvent
    /\ UNCHANGED <<cache, run_result>>
    /\ UNCHANGED <<align_vars, est_vars, chop_vars, sel_vars, run_vars>>

\* the window the build loop is at (0-based)
BuildIdx == Len(tr_segments)

\* lines 364-377: one attempt on the current window.  A returned value ends
\* the attempts ("" after an API error included); a timeout or an exception
\* leads to the next attempt, and after the last one the text stays ""
BuildAttempt ==
    /\ tr_pc = "seq"
    /\ BuildIdx < Len(tr_windows)
    /\ \E what \in Outcomes :
         /\ tr_invocations' = tr_invocations + 1
         /\ tr_last' = [idx |-> BuildIdx, what |-> what]
         /\ IF what \in {"timeout", "exception"} /\ tr_attempt + 1 < ATTEMPTS
            THEN /\ tr_attempt' = tr_attempt + 1
                 /\ UNCHANGED <<tr_segments, tr_failed>>
            ELSE /\ tr_segments' = Append(tr_segments,
                        window_dict(tr_windows[BuildIdx + 1],
                            final_text(what, Transcript(tr_call.name, BuildIdx),
                                       tr_segments)))
                 /\ tr_attempt' = 0
                 /\ tr_failed' = IF what = "text" THEN tr_failed
                                 ELSE tr_failed \cup {BuildIdx}
    /\ UNCHANGED <<cache, run_result, tr_pc, tr_call, tr_windows,
                   tr_batch_start, tr_results, tr_done_order, tr_ret>>
    /\ UNCHANGED <<align_vars, est_vars, chop_vars, sel_vars, run_vars>>

\* line 358: librosa.resample is outside the try block; its exception leaves
\* grok_transcribe_song and no cache file is written
BuildResampleRaises ==
    /\ tr_pc = "seq"
    /\ BuildIdx < Len(tr_windows)
    /\ tr_attempt = 0
    /\ tr_pc' = "raised"
    /\ tr_last' = [idx |-> BuildIdx, what |-> "resample_raise"]
    /\ UNCHANGED <<cache, run_result, tr_call, tr_windows, tr_segments,
                   tr_batch_start, tr_results, tr_done_order, tr_attempt,
                   tr_failed, tr_invocations, tr_ret>>
    /\ UNCHANGED <<align_vars, est_vars, chop_vars, sel_vars, run_vars>>

\* line 384: the loop is over; `open(cache, "w")` creates the file empty
BuildFinish ==
    /\ tr_pc = "seq"
    /\ BuildIdx >= Len(tr_windows)
    /\ cache' = [cache EXCEPT ![tr_call.name] =
                    truncated(json_dump(tr_segments), 0)]
    /\ tr_pc' = "write"
    /\ UNCHANGED <<run_result, tr_ret, tr_call, tr_windows, tr_segments, tr_batch_start, tr_results,
                   tr_done_order, tr_attempt, tr_failed, tr_invocations, tr_last>>
    /\ UNCHANGED <<align_vars, est_vars, chop_vars, sel_vars, run_vars>>

\* realign 289-292 / build 385-386: json.dump writes the whole list, the
\* file is closed and the list returned
CacheWriteDone ==
    /\ tr_pc = "write"
    /\ cache' = [cache EXCEPT ![tr_call.name] = json_dump(tr_segments)]
    /\ run_result' = [run_result EXCEPT ![tr_call.name] = tr_segments]
    /\ tr_ret' = tr_segments
    /\ tr_pc' = "returned"
    /\ UNCHANGED <<tr_call, tr_windows, tr_segments, tr_batch_start, tr_results,
                   tr_done_order, tr_attempt, tr_failed, tr_invocations, tr_last>>
    /\ UNCHANGED <<align_vars, est_vars, chop_vars, sel_vars, run_vars>>

\* the process is stopped (signal, power loss, full disk) while json.dump is
\* writing: the file keeps what had been written
CacheWriteInterrupted ==
    /\ tr_pc = "write"
    /\ \E k \in 0..Len(tr_segments) :
         cache' = [cache EXCEPT ![tr_call.name] =
                      truncated(json_dump(tr_segments), k)]
    /\ tr_pc' = "killed"
    /\ tr_last' = [idx |-> -1, what |-> "interrupt"]
    /\ UNCHANGED <<run_result, tr_call, tr_windows, tr_segments, tr_batch_start,
                   tr_results, tr_done_order, tr_attempt, tr_failed,
                   tr_invocations, tr_ret>>
    /\ UNCHANGED <<align_vars, est_vars, chop_vars, sel_vars, run_vars>>

\* realign main 586-593 (--force: the cache files of the songs found) and
\* build main 899-906 (--force-realign: every *_grok_align.json), at startup
CallerForce ==
    /\ BetweenCalls
    /\ \E songs \in SUBSET Names :
         /\ songs # {}
         /\ \E n \in songs : cache_exists(cache, n)
         /\ cache' = [n \in Names |-> IF n \in songs THEN Absent ELSE cache[n]]
         /\ run_result' = [n \in Names |->
                              IF n \in songs THEN Absent ELSE run_result[n]]
    /\ tr_last' = [idx |-> -1, what |-> "force"]
    /\ UNCHANGED <<tr_pc, tr_call, tr_windows, tr_segments, tr_batch_start,
                   tr_results, tr_done_order, tr_attempt, tr_failed,
                   tr_invocations, tr_ret>>
    /\ UNCHANGED <<align_vars, est_vars, chop_vars, sel_vars, run_vars>>

NextTranscribe ==
    \/ TrCacheHit
    \/ RealignStart
    \/ RealignLaunchBatch
    \/ RealignTaskDone
    \/ RealignBatchJoin
    \/ RealignFinish
    \/ BuildStart
    \/ BuildAttempt
    \/ BuildResampleRaises
    \/ BuildFinish
    \/ CacheWriteDone
    \/ CacheWriteInterrupted
    \/ CallerForce

SpecTranscribe == InitTranscribe /\ [][NextTranscribe]_vars

-----------------------------------------------------------------------------
(* Properties of the matcher, the refiner and the per-line loops.          *)

\* the latest pass handled one line
Handled == last_match.branch \in {"refined", "kept_old", "onset"}

LastPhrase == out_phrases[Len(out_phrases)]

HasSentinel == [t \in Transcripts |-> Contains(upper(t), INSTRUMENTAL)]

\* window k takes part in the scan: a transcript with at least one word that
\* does not carry the sentinel
Eligible(k) ==
    /\ segments[k].text # <<>>
    /\ ~HasSentinel[segments[k].text]
    /\ TextWords[segments[k].text] # <<>>

ScoreOf(k) == SegScore[last_match.lyric, segments[k].text]

\* C2: every call of estimate_line_timestamps with N >= 1 terminates, and
\* the list it returns has exactly N (start, end) pairs, whatever the
\* number of onsets.
C2_ReturnsExactlyN ==
    /\ <>(est_pc = "done")
    /\ [](est_pc = "done" => Len(est_timestamps) = est_num_lines)

\* a call that started with fewer raw segments than N has returned
C2_WitnessBisect ==
    /\ est_pc = "done"
    /\ Len(onset_times) >= 2
    /\ Len(raw_segments(onset_times)) < est_num_lines
    /\ Len(est_timestamps) = est_num_lines

\* C1 as stated: whenever the refiner has returned (start, end) for a window
\* lying inside the song, MIN_PHRASE_DURATION <= end - start <=
\* MAX_PHRASE_DURATION and 0 <= start < end <= song_duration.
C1_RefinedWithinBounds ==
    (last_match.refined /\ segments[last_match.seg].end <= song_dur) =>
        /\ MIN_PHRASE_DURATION <= last_match.end - last_match.start
        /\ last_match.end - last_match.start <= MAX_PHRASE_DURATION
        /\ 0 <= last_match.start
        /\ last_match.start < last_match.end
        /\ last_match.end <= song_dur

\* C1 amended: for a song of at least MIN_PHRASE_DURATION the bounds hold up
\* to the rounding of start and end to three decimals: the phrase duration
\* is within one millisecond of [MIN_PHRASE_DURATION, MAX_PHRASE_DURATION],
\* 0 <= start < end, and end exceeds the song duration by at most half a
\* millisecond.
C1_RefinedWithinRoundedBounds ==
    (last_match.refined /\ song_dur >= MIN_PHRASE_DURATION) =>
        /\ MIN_PHRASE_DURATION - 1000 <= last_match.end - last_match.start
        /\ last_match.end - last_match.start <= MAX_PHRASE_DURATION + 1000
        /\ 0 <= last_match.start
        /\ last_match.start < last_match.end
        /\ last_match.end <= song_dur + 500

\* the refiner returned a phrase that it had to cut at the end of the song
C1_Witness ==
    /\ last_match.refined
    /\ song_dur >= MIN_PHRASE_DURATION
    /\ last_match.start > 0
    /\ last_match.end >= song_dur
    /\ last_match.end - last_match.start < MAX_PHRASE_DURATION

\* C3: the window the matcher returns as best match never has an empty
\* transcript nor one containing the [INSTRUMENTAL] sentinel in any case.
C3_NeverInstrumental ==
    last_match.seg # 0 =>
        /\ segments[last_match.seg].text # <<>>
        /\ ~HasSentinel[segments[last_match.seg].text]

\* an earlier window carrying the sentinel scores at least as high against
\* the lyric as the window that was returned
C3_Witness ==
    /\ Handled
    /\ last_match.seg # 0
    /\ \E k \in 1..(last_match.seg - 1) :
         /\ HasSentinel[segments[k].text]
         /\ FracGE(ScoreOf(k), last_match.score)

\* the padded duration of phrase k (0-based) of the chopper's list
PaddedDur(k) ==
    Min(wave_duration(wave), chop_phrases[k + 1].end + 50000)
        - Max(0, chop_phrases[k + 1].start - 50000)

\* the audio of file f is at or above the silence threshold:
\* sqrt(mean(clip ** 2)) >= 0.005
FileIsLoud(f) ==
    /\ f.hi > f.lo
    /\ sum_squares(wave, f.lo, f.hi) >= 25 * (f.hi - f.lo)

\* C4: every clip the chopper emits has measured RMS energy >= 0.005 and a
\* padded duration >= MIN_PHRASE_DURATION; a phrase failing either test has
\* no audio file and no metadata record.
C4_EmittedClipsLoudAndLong ==
    /\ \A i \in 1..Len(clips_meta) :
         /\ PaddedDur(clips_meta[i].clip_index) >= 600000
         /\ clips_meta[i].duration >= 600000
         /\ clips_meta[i].rms >= 50
         /\ \E f \in clip_files :
              f.name = clips_meta[i].clip_file /\ FileIsLoud(f)
    /\ \A f \in clip_files :
         /\ FileIsLoud(f)
         /\ \E i \in 1..Len(clips_meta) : clips_meta[i].clip_file = f.name
    /\ chop_last.outcome \in {"duration", "silent"} =>
         /\ \A i \in 1..Len(clips_meta) : clips_meta[i].clip_index # chop_last.ci
         /\ \A f \in clip_files : f.name # clip_name(chop_song, chop_last.ci)

\* a clip was emitted for the first phrase and the second phrase, faint
\* but long enough, was dropped
C4_Witness ==
    /\ Len(clips_meta) = 1
    /\ chop_last.outcome = "silent"
    /\ chop_last.sumsq > 0
    /\ PaddedDur(chop_last.ci) > 600000

\* the line of the latest pass scored below the caller's acceptance
\* threshold (realign: 0.30 on the raw score; build: 0.25 on the returned
\* confidence)
BelowThreshold ==
    /\ Handled
    /\ IF pipeline = "realign"
       THEN ~FracGE(last_match.score, Frac(30, 100))
       ELSE ~FracGE(last_match.confidence, Frac(25, 100))

\* C5: whenever a line's best score is below the acceptance threshold, the
\* result for the line carries no window and the phrase recorded for it has
\* confidence exactly 0.0, in both pipelines.
C5_BelowThresholdNoWindowZero ==
    BelowThreshold =>
        /\ last_match.seg = 0
        /\ FracEQ(LastPhrase.confidence, Zero)

\* C6: a lyric without words yields no window and confidence 0.0 without
\* any window being scored, and the caller falls back: onset timestamp in
\* build, old timestamp in realign.
C6_NoWordsFallsBack ==
    (Handled /\ TextWords[last_match.lyric] = <<>>) =>
        /\ last_match.seg = 0
        /\ FracEQ(last_match.score, Zero)
        /\ FracEQ(last_match.confidence, Zero)
        /\ FracEQ(LastPhrase.confidence, Zero)
        /\ last_match.scanned = 0
        /\ ~last_match.refined
        /\ last_match.branch = IF pipeline = "build" THEN "onset" ELSE "kept_old"
        /\ LastPhrase.lyric = last_match.lyric
        /\ pipeline = "realign" =>
             /\ LastPhrase.start = song_phrases[ph_pos].start
             /\ LastPhrase.end = song_phrases[ph_pos].end

\* a lyric without words was handled while the song had a window that a
\* scan would have scored
C6_Witness ==
    /\ Handled
    /\ TextWords[last_match.lyric] = <<>>
    /\ \E k \in 1..Len(segments) : Eligible(k)
    /\ Len(out_phrases) > 0

\* C7 as stated: when the song has a non-instrumental, non-empty window the
\* matcher returns a window, its score is the maximum over those windows,
\* and it is the earliest window reaching that maximum.
C7_ReturnsMaxEarliest ==
    (Handled /\ TextWords[last_match.lyric] # <<>>
        /\ \E k \in 1..Len(segments) : Eligible(k)) =>
        /\ last_match.seg # 0
        /\ Eligible(last_match.seg)
        /\ \A k \in 1..Len(segments) :
             Eligible(k) =>
                /\ FracGE(ScoreOf(last_match.seg), ScoreOf(k))
                /\ k < last_match.seg => FracGT(ScoreOf(last_match.seg), ScoreOf(k))

\* C7 amended: the same, provided the maximum score is above 0; when every
\* such window scores 0 the matcher returns no window and confidence 0.0.
C7_ReturnsPositiveMaxEarliest ==
    (Handled /\ TextWords[last_match.lyric] # <<>>) =>
        IF \E k \in 1..Len(segments) : Eligible(k) /\ FracGT(ScoreOf(k), Zero)
        THEN /\ last_match.seg # 0
             /\ Eligible(last_match.seg)
             /\ FracEQ(last_match.score, ScoreOf(last_match.seg))
             /\ \A k \in 1..Len(segments) :
                  Eligible(k) =>
                     /\ FracGE(ScoreOf(last_match.seg), ScoreOf(k))
                     /\ k < last_match.seg =>
                            FracGT(ScoreOf(last_match.seg), ScoreOf(k))
        ELSE last_match.seg = 0 /\ FracEQ(last_match.score, Zero)

\* two windows reach the same positive maximum and the earlier one is returned
C7_Witness ==
    /\ Handled
    /\ last_match.seg # 0
    /\ FracGT(last_match.score, Zero)
    /\ \E k \in (last_match.seg + 1)..Len(segments) :
         Eligible(k) /\ FracEQ(ScoreOf(k), last_match.score)

-----------------------------------------------------------------------------
(* Properties of the Windowed Transcriber and its cache.                   *)

\* a call that found no cache file has returned its list
RunReturned == tr_pc = "returned" /\ ~tr_call.hit

\* entry i of the returned list is window i with the text its own
\* transcription produced: the transcript, or "" if it failed
OwnEntry(i) ==
    /\ tr_ret[i].kind = "dict"
    /\ tr_ret[i].start = tr_windows[i].start
    /\ tr_ret[i].end = tr_windows[i].end
    /\ tr_ret[i].text = IF (i - 1) \in tr_failed THEN <<>>
                        ELSE Transcript(tr_call.name, i - 1)

\* C8: in transcribe_song, for every order in which the tasks of a batch
\* complete, the returned list has exactly one entry per window of the
\* recording, entry i holds window i's start, end and own transcript, and no
\* slot is still None when the list is handed to matching.
C8_WindowOrderPreserved ==
    (RunReturned /\ tr_call.pipeline = "realign") =>
        /\ tr_windows \in windows_of(tr_call.name)
        /\ Len(tr_ret) = Len(tr_windows)
        /\ \A i \in 1..Len(tr_ret) : tr_ret[i] # None /\ OwnEntry(i)

\* a two-window batch whose first task finished last, both with text
C8_Witness ==
    /\ RunReturned
    /\ tr_call.pipeline = "realign"
    /\ tr_last.idx = 0
    /\ tr_failed = {}
    /\ Len(tr_ret) = 2

\* C9: in both transcribers, a window whose transcription failed (timeout,
\* API error, exception from the capability) has text "", every other window
\* has its own transcript, the list is complete, and no such failure ends the
\* call with an exception.
C9_WindowFailureIsolated ==
    /\ RunReturned =>
         /\ Len(tr_ret) = Len(tr_windows)
         /\ tr_windows \in windows_of(tr_call.name)
         /\ \A i \in 1..Len(tr_ret) :
              /\ tr_ret[i].kind = "dict"
              /\ (i - 1) \in tr_failed => tr_ret[i].text = <<>>
              /\ (i - 1) \notin tr_failed =>
                     tr_ret[i].text = Transcript(tr_call.name, i - 1)
    /\ tr_pc = "raised" => tr_last.what \notin Outcomes
    /\ (tr_last.what \in Outcomes \ {"text"} /\ tr_pc \notin {"idle", "raised"}) =>
          tr_last.idx \in tr_failed \/ (tr_pc = "seq" /\ tr_attempt > 0)

\* build: the second of two windows failed after the first got its text
C9_Witness ==
    /\ RunReturned
    /\ tr_call.pipeline = "build"
    /\ tr_failed = {1}
    /\ tr_last.what \in {"timeout", "exception"}
    /\ Len(tr_ret) = 2
    /\ tr_ret[1].text # <<>>

\* C10: while the list of a completed run is on record for a name (the caller
\* has not deleted the cache file since), a call for that name is a cache hit
\* that returns the identical list with no capability invocation, empty texts
\* included; and the cache entry of a completed run changes only by the
\* caller's deletion, in a step in which the transcriber does nothing.
C10_CacheIdempotent ==
    /\ [](tr_call.prior # Absent =>
            /\ tr_pc = "returned"
            /\ tr_call.hit
            /\ tr_ret = tr_call.prior
            /\ tr_invocations = 0)
    /\ [][\A n \in Names :
            (run_result[n] # Absent /\ cache'[n] # cache[n]) =>
                /\ cache'[n] = Absent
                /\ BetweenCalls
                /\ UNCHANGED <<tr_pc, tr_call, tr_segments, tr_ret>>]_vars

\* a hit on a cached list that holds an empty text from a failed window
C10_Witness ==
    /\ tr_pc = "returned"
    /\ tr_call.hit
    /\ tr_call.prior # Absent
    /\ tr_invocations = 0
    /\ \E i \in 1..Len(tr_ret) : tr_ret[i].text = <<>>
    /\ \E i \in 1..Len(tr_ret) : tr_ret[i].text # <<>>

\* C11: at every point of every execution a cache entry is either absent or
\* the complete window list of a run, never a partially written one.
C11_CacheEntryAbsentOrComplete ==
    \A n \in Names :
        \/ cache[n] = Absent
        \/ /\ cache[n].json = "array"
           /\ Len(cache[n].items) = Len(CHOOSE w \in windows_of(n) : TRUE)

-----------------------------------------------------------------------------
(* The window layout and the end-to-end scenario of the matcher.           *)

\* the exact end of the window that starts at i * SEG_STEP
ExactEnd(i) == Min(i * SEG_STEP + SEG_DURATION, song_dur)

\* the number of i with i * SEG_STEP < song_dur
WindowCount == (song_dur + SEG_STEP - 1) \div SEG_STEP

\* C12 as stated: the windows are i = 0..n-1 with start = i*S and
\* end = min(i*S + W, duration), n the number of i with i*S < duration;
\* starts strictly increase, every window has end > start, the union is
\* exactly [0, duration) and consecutive windows overlap.
C12_WindowsCoverExactly ==
    segments # <<>> =>
        /\ Len(segments) = WindowCount
        /\ \A i \in 1..Len(segments) :
             /\ segments[i].start = (i - 1) * SEG_STEP
             /\ segments[i].end = ExactEnd(i - 1)
             /\ segments[i].end > segments[i].start
        /\ \A i \in 1..(Len(segments) - 1) :
             /\ segments[i].start < segments[i + 1].start
             /\ segments[i + 1].start < segments[i].end
        /\ segments[1].start = 0
        /\ segments[Len(segments)].end = song_dur

\* C12 amended: as above with every end rounded to three decimals: the end
\* is within half a millisecond of min(i*S + W, duration), every window has
\* end >= start, consecutive windows overlap or touch, and the union is
\* [0, round(duration, 3)].
C12_WindowsCoverRounded ==
    segments # <<>> =>
        /\ Len(segments) = WindowCount
        /\ \A i \in 1..Len(segments) :
             /\ segments[i].start = (i - 1) * SEG_STEP
             /\ \E r \in Round3(ExactEnd(i - 1), 1) : segments[i].end = r
             /\ segments[i].end >= segments[i].start
        /\ \A i \in 1..(Len(segments) - 1) :
             /\ segments[i].start < segments[i + 1].start
             /\ segments[i + 1].start <= segments[i].end
        /\ segments[1].start = 0
        /\ \E r \in Round3(song_dur, 1) : segments[Len(segments)].end = r

\* a song a tenth of a millisecond longer than one step: its last window is
\* recorded with end = start
C12_Witness ==
    /\ Len(segments) = 2
    /\ song_dur > SEG_STEP
    /\ segments[2].end = segments[2].start
    /\ segments[1].end = segments[2].start

ScenarioLyric == <<"b", "e", " ", "h", "u", "m", "b", "l", "e">>
ScenarioTranscript ==
    <<"s", "i", "t", " ", "d", "o", "w", "n", " ",
      "b", "e", " ", "h", "u", "m", "b", "l", "e">>

\* scenario A: the lyric has been matched against the window list of a song
\* of at least 10 s whose only window with words is [0, 10]
ScenarioA ==
    /\ Handled
    /\ last_match.lyric = ScenarioLyric
    /\ song_dur >= SEG_DURATION
    /\ segments # <<>>
    /\ segments[1].start = 0
    /\ segments[1].end = SEG_DURATION
    /\ segments[1].text = ScenarioTranscript
    /\ \A k \in 2..Len(segments) : ~Eligible(k)

\* C13: in scenario A the line is accepted with confidence >= 0.85 and the
\* refined phrase lasts exactly MAX_PHRASE_DURATION.
C13_ScenarioAClamped ==
    ScenarioA =>
        /\ last_match.refined
        /\ last_match.seg = 1
        /\ FracGE(last_match.confidence, Frac(85, 100))
        /\ last_match.end - last_match.start = MAX_PHRASE_DURATION
        /\ LastPhrase.end - LastPhrase.start = MAX_PHRASE_DURATION

C13_Witness ==
    /\ ScenarioA
    /\ last_match.refined
    /\ LastPhrase.lyric = ScenarioLyric
    /\ LastPhrase.start = 5000000
    /\ LastPhrase.end = 9000000

-----------------------------------------------------------------------------
(* The degenerate case of the Acoustic Fallback Segmenter.                 *)

\* t is x / n cut to whole microseconds
IsQuotient(t, x, n) == n * t <= x /\ x < n * t + n

\* C14: with fewer than 2 onsets the estimator returns, for every N >= 1,
\* the N slices (i * duration / N, (i + 1) * duration / N), i = 0..N-1: each
\* ends where the next starts, the first starts at 0 and the last ends at
\* the duration.
C14_UniformSlices ==
    (est_pc = "done" /\ Len(onset_times) < 2) =>
        /\ Len(est_timestamps) = est_num_lines
        /\ \A i \in 1..est_num_lines :
             /\ IsQuotient(est_timestamps[i][1], (i - 1) * song_dur, est_num_lines)
             /\ IsQuotient(est_timestamps[i][2], i * song_dur, est_num_lines)
        /\ \A i \in 1..(est_num_lines - 1) :
             est_timestamps[i][2] = est_timestamps[i + 1][1]
        /\ est_timestamps[1][1] = 0
        /\ est_timestamps[est_num_lines][2] = song_dur

\* one onset and four lines: four quarters of a ten-second song
C14_Witness ==
    /\ est_pc = "done"
    /\ Len(onset_times) = 1
    /\ est_num_lines = 4
    /\ song_dur = 10000000
    /\ est_timestamps = <<<<0, 2500000>>, <<2500000, 5000000>>,
                          <<5000000, 7500000>>, <<7500000, 10000000>>>>

-----------------------------------------------------------------------------
(* Phrase Selector of build_rap_db.py: _process_song_task lines 866-871,   *)
(* grok_select_phrases lines 539-605 and _lines_to_phrases.  Step 3 of     *)
(* grok_select_phrases, which aligns the lines of selected_indices, is     *)
(* NextAlign above.                                                        *)

MaxPattern == 2
MaxRanked == 2

\* lyric lines of one, two and four words, and one of three words set apart
\* by runs of whitespace
SelLines ==
    {<<"y", "e", "a", "h">>,
     <<"u", "h", " ", "h", "u", "h">>,
     <<"s", "i", "t", " ", "d", "o", "w", "n", " ", "b", "e", " ", "h", "u", "m", "b", "l", "e">>,
     <<"b", "e", " ", " ", "s", "o", "\t", "u", "p">>}

\* len(line.split())
line_words == [s \in SelLines |-> Len(split(s))]

\* line lists: a pattern of lines repeated up to a length on either side of
\* MAX_CLIPS_PER_SONG
SelLengths == {1, 2, 3, MAX_CLIPS_PER_SONG + 1, 2 * MAX_CLIPS_PER_SONG + 1}

LineLists ==
    {[i \in 1..n |-> p[((i - 1) % Len(p)) + 1]] :
        p \in SeqsUpTo(SelLines, MaxPattern), n \in SelLengths}

\* a timestamp list of k entries
slots(k) == [i \in 1..k |-> <<(i - 1) * 1000000, i * 1000000>>]

_lines_to_phrases_uncapped(ls, timestamps) ==
    LET kept == SelectSeq([i \in 1..Len(ls) |-> i - 1],
                          LAMBDA i : /\ ~(line_words[ls[i + 1]] < 3)
                                     /\ i < Len(timestamps))
    IN  [k \in 1..Len(kept) |->
            [lyric |-> ls[kept[k] + 1], start |-> timestamps[kept[k] + 1][1],
             end |-> timestamps[kept[k] + 1][2], line_index |-> kept[k],
             confidence |-> Zero, has_confidence |-> FALSE]]

\* lines 671-686
_lines_to_phrases(ls, timestamps) ==
    LET kept == SelectSeq([i \in 1..Len(ls) |-> i - 1],
                          LAMBDA i : /\ ~(line_words[ls[i + 1]] < 3)
                                     /\ i < Len(timestamps))
        phrases == [k \in 1..Len(kept) |->
            [lyric |-> ls[kept[k] + 1], start |-> timestamps[kept[k] + 1][1],
             end |-> timestamps[kept[k] + 1][2], line_index |-> kept[k],
             confidence |-> Zero, has_confidence |-> FALSE]]
    IN  SubSeq(phrases, 1, Min(MAX_CLIPS_PER_SONG, Len(phrases)))

\* what the ranking request can come to: requests.post raises, the status
\* is an error and raise_for_status raises, the content is no JSON and
\* json.loads raises, the content is JSON but no array (a number, null),
\* or the content is an array of numbers and other values
JsonInt(v) == [t |-> "int", v |-> v]
JsonStr == [t |-> "str", v |-> 0]

RankItems(n) == {JsonInt(v) : v \in {-1, 0, n - 1, n}} \cup {JsonStr}

RankResponses(n) ==
    {[kind |-> kd, items |-> <<>>] :
        kd \in {"network_error", "http_error", "not_json", "not_array"}}
    \cup {[kind |-> "array", items |-> it] :
            it \in {<<>>} \cup SeqsUpTo(RankItems(n), MaxRanked)}

RankingFailed(resp) == resp.kind \in {"network_error", "http_error", "not_json"}

\* line 600
valid_indices(items, n) ==
    LET ok == SelectSeq(items, LAMBDA x : x.t = "int" /\ 0 <= x.v /\ x.v < n)
    IN  [k \in 1..Len(ok) |-> ok[k].v]

\* line 568
all_lines(n) == [i \in 1..n |-> i - 1]

InitSelect ==
    /\ IdleEstimate
    /\ IdleChop
    /\ IdleTranscribe
    /\ IdleRun
    /\ pipeline = "build"
    /\ song_dur = 0
    /\ segments = <<>>
    /\ onset_times = <<>>
    /\ song_phrases = <<>>
    /\ ph_pos = 0
    /\ out_phrases = <<>>
    /\ last_match = NoLine
    /\ stats = [matched |-> 0, unmatched |-> 0, kept_old |-> 0]
    /\ phrases_file = <<>>
    /\ song_pc = "idle"
    /\ selected_indices = <<>>
    /\ sel_response = NoResponse
    /\ \/ /\ sel_pc = "start"
          /\ sel_env \in [entry : {"_process_song_task"}, use_grok : BOOLEAN,
                          key : BOOLEAN]
          /\ lines \in LineLists
       \/ /\ sel_pc = "select"
          /\ sel_env \in [entry : {"grok_select_phrases"}, use_grok : {TRUE},
                          key : BOOLEAN]
          /\ lines \in LineLists \cup {<<>>}
    /\ sel_timestamps \in {slots(Len(lines)), slots(Max(Len(lines) - 1, 0))}

\* _process_song_task lines 867, 869-871: no ranking and no transcription
TaskDefaultPolicy ==
    /\ sel_pc = "start"
    /\ ~(sel_env.use_grok /\ sel_env.key)
    /\ out_phrases' = _lines_to_phrases(lines, sel_timestamps)
    /\ sel_pc' = "done"
    /\ UNCHANGED <<pipeline, song_dur, segments, onset_times, lines,
                   selected_indices, song_phrases, ph_pos, last_match, stats>>
    /\ UNCHANGED <<phrases_file, song_pc>>
    /\ UNCHANGED <<sel_env, sel_response, sel_timestamps>>
    /\ UNCHANGED <<est_vars, chop_vars, tr_vars, run_vars>>

\* _process_song_task lines 867-868
TaskCallsGrok ==
    /\ sel_pc = "start"
    /\ sel_env.use_grok /\ sel_env.key
    /\ sel_pc' = "select"
    /\ UNCHANGED <<align_vars, sel_env, sel_response, sel_timestamps>>
    /\ UNCHANGED <<est_vars, chop_vars, tr_vars, run_vars>>

\* grok_select_phrases lines 539-541
GrokSelectNoLines ==
    /\ sel_pc = "select"
    /\ lines = <<>>
    /\ out_phrases' = <<>>
    /\ sel_pc' = "done"
    /\ UNCHANGED <<pipeline, song_dur, segments, onset_times, lines,
                   selected_indices, song_phrases, ph_pos, last_match, stats>>
    /\ UNCHANGED <<phrases_file, song_pc>>
    /\ UNCHANGED <<sel_env, sel_response, sel_timestamps>>
    /\ UNCHANGED <<est_vars, chop_vars, tr_vars, run_vars>>

\* grok_select_phrases lines 543-546
GrokSelectNoKey ==
    /\ sel_pc = "select"
    /\ lines # <<>>
    /\ ~sel_env.key
    /\ out_phrases' = _lines_to_phrases(lines, sel_timestamps)
    /\ sel_pc' = "done"
    /\ UNCHANGED <<pipeline, song_dur, segments, onset_times, lines,
                   selected_indices, song_phrases, ph_pos, last_match, stats>>
    /\ UNCHANGED <<phrases_file, song_pc>>
    /\ UNCHANGED <<sel_env, sel_response, sel_timestamps>>
    /\ UNCHANGED <<est_vars, chop_vars, tr_vars, run_vars>>

\* grok_select_phrases lines 548-605, step 1.  selected_indices starts as
\* every line number; only a parsed array replaces it.  A JSON value that is
\* no array is assigned at line 599, the comprehension of line 600 raises
\* TypeError into the except clause, and the loop of step 3 raises it again
\* out of the function.
GrokRankLines ==
    /\ sel_pc = "select"
    /\ lines # <<>>
    /\ sel_env.key
    /\ \E resp \in RankResponses(Len(lines)) :
         /\ sel_response' = resp
         /\ selected_indices' =
              IF resp.kind = "array" THEN valid_indices(resp.items, Len(lines))
              ELSE all_lines(Len(lines))
         /\ sel_pc' = IF resp.kind = "not_array" THEN "raised" ELSE "ranked"
    /\ UNCHANGED <<pipeline, song_dur, segments, onset_times, lines,
                   song_phrases, ph_pos, out_phrases, last_match, stats>>
    /\ UNCHANGED <<phrases_file, song_pc>>
    /\ UNCHANGED <<sel_env, sel_timestamps>>
    /\ UNCHANGED <<est_vars, chop_vars, tr_vars, run_vars>>

NextSelect ==
    \/ TaskDefaultPolicy
    \/ TaskCallsGrok
    \/ GrokSelectNoLines
    \/ GrokSelectNoKey
    \/ GrokRankLines

SpecSelect == InitSelect /\ [][NextSelect]_vars

\* the line numbers the default policy selects over all lines
DefaultSelection(ls) ==
    LET ph == _lines_to_phrases(ls, slots(Len(ls)))
    IN  [k \in 1..Len(ph) |-> ph[k].line_index]

\* C15: when the ranking call fails, the lines passed to alignment are
\* exactly those the default policy selects over all lines: lines of at
\* least 3 words, at most MAX_CLIPS_PER_SONG of them.
C15_RankingFailureUsesDefaultPolicy ==
    (sel_pc \in {"ranked", "raised"} /\ RankingFailed(sel_response)) =>
        /\ sel_pc = "ranked"
        /\ selected_indices = DefaultSelection(lines)

\* C16: the phrases the default policy returns have lyrics of at least 3
\* whitespace-separated words, are at most MAX_CLIPS_PER_SONG, are in line
\* order, and phrase with line_index i carries lines[i] and timestamps[i].
C16_DefaultPolicy ==
    sel_pc = "done" =>
        /\ Len(out_phrases) <= MAX_CLIPS_PER_SONG
        /\ \A k \in 1..Len(out_phrases) :
             LET i == out_phrases[k].line_index
             IN  /\ Len(split(out_phrases[k].lyric)) >= 3
                 /\ 0 <= i /\ i < Len(lines) /\ i < Len(sel_timestamps)
                 /\ out_phrases[k].lyric = lines[i + 1]
                 /\ out_phrases[k].start = sel_timestamps[i + 1][1]
                 /\ out_phrases[k].end = sel_timestamps[i + 1][2]
        /\ \A k \in 1..(Len(out_phrases) - 1) :
             out_phrases[k].line_index < out_phrases[k + 1].line_index

\* 101 lines, every other one a filler: 51 lines qualify, the first 50 are
\* returned and the fillers between them are left out
C16_Witness ==
    /\ sel_pc = "done"
    /\ Len(lines) = 2 * MAX_CLIPS_PER_SONG + 1
    /\ Len(split(lines[1])) = 4
    /\ Len(split(lines[2])) = 1
    /\ Len(sel_timestamps) = Len(lines)
    /\ Len(out_phrases) = MAX_CLIPS_PER_SONG
    /\ out_phrases[MAX_CLIPS_PER_SONG].line_index = 2 * MAX_CLIPS_PER_SONG - 2

-----------------------------------------------------------------------------
(* One run of main() over a batch of songs: build_rap_db.main (lines       *)
(* 882-1000, with _fetch_lyrics_task and _process_song_task) and           *)
(* realign_lyrics.main (lines 532-710).  What one song's selection,        *)
(* alignment and chopping do is modelled above; here a song carries the    *)
(* outcome: `emits`, the phrase indices whose clips pass the chopper's     *)
(* tests, and `fault`, the stage at which processing it raises.            *)

MaxSongs == 2
MaxSongClips == 2

\* songs in index order; the first two sanitize to the same artist and
\* title, the third to empty text
SongPool ==
    <<[song_idx |-> 7, artist |-> <<"Y", "e">>,
       title |-> <<"B", "e", " ", "U", "!">>],
      [song_idx |-> 8, artist |-> <<"Y", "e", "!">>,
       title |-> <<"B", "e", "_", "U">>],
      [song_idx |-> 9, artist |-> <<"$">>, title |-> <<"!", "!">>]>>

\* "lyrics_unreadable": json.load of the song's cached lyrics raises;
\* "audio_unreadable": loading the recording raises; "write_raises":
\* sf.write raises on the song's last clip
Faults == {"none", "lyrics_unreadable", "audio_unreadable", "write_raises"}

ascending(S) ==
    CHOOSE q \in [1..Cardinality(S) -> S] :
        \A i, j \in 1..Cardinality(S) : i < j => q[i] < q[j]

\* the batches: up to MaxSongs songs of the pool in index order, at most one
\* of them faulty
Batches ==
    UNION {
      {[i \in 1..Cardinality(S) |->
          [song_idx |-> SongPool[ascending(S)[i]].song_idx,
           artist |-> SongPool[ascending(S)[i]].artist,
           title |-> SongPool[ascending(S)[i]].title,
           fault |-> f[i], emits |-> e[i]]] :
         f \in {g \in [1..Cardinality(S) -> Faults] :
                  Cardinality({i \in 1..Cardinality(S) : g[i] # "none"}) <= 1},
         e \in [1..Cardinality(S) -> SUBSET (0..(MaxSongClips - 1))]} :
      S \in {T \in SUBSET (1..Len(SongPool)) : Cardinality(T) <= MaxSongs}}

\* the clip files an earlier run over the whole pool left behind
OldClips ==
    {clip_name(SongPool[k], ci) : k \in 1..Len(SongPool),
                                  ci \in 0..(MaxSongClips - 1)}

InitBatch ==
    /\ IdleAlign
    /\ song_dur = 0
    /\ onset_times = <<>>
    /\ IdleEstimate
    /\ IdleChop
    /\ IdleTranscribe
    /\ IdleSelect
    /\ run_pc = "start"
    /\ run_cfg \in
         [pipeline : {"build"}, key : BOOLEAN, dry_run : {FALSE},
          use_grok : BOOLEAN, force : BOOLEAN]
         \cup [pipeline : {"realign"}, key : BOOLEAN, dry_run : BOOLEAN,
               use_grok : {TRUE}, force : BOOLEAN]
    /\ run_songs \in Batches
    /\ \A i \in 1..Len(run_songs) :
         run_songs[i].fault = "write_raises" =>
            run_songs[i].emits # {} /\ ~run_cfg.dry_run
    /\ run_lyrics = {}
    /\ run_handled = {}
    /\ run_done = {}
    /\ run_all_clips = <<>>
    /\ fs_clips \in {{}, OldClips}
    /\ fs_meta = [written |-> FALSE, files |-> fs_clips]
    /\ run_log = {}

\* realign line 532
key_missing_never == FALSE

key_missing == ~run_cfg.key

\* the records a chopper returns for the phrase indices in `cis`
song_clips(sg, cis) ==
    [k \in 1..Cardinality(cis) |->
        [clip_file |-> clip_name(sg, ascending(cis)[k]), artist |-> sg.artist,
         title |-> sg.title, song_index |-> sg.song_idx,
         clip_index |-> ascending(cis)[k]]]

\* the files a chopper writes for the phrase indices in `cis`
song_files(sg, cis) == {clip_name(sg, ci) : ci \in cis}

\* the clips written before sf.write raises on the last one
written_before_raise(sg) == sg.emits \ {SetMax(sg.emits)}

logged(cond, what) == IF cond THEN {what} ELSE {}

\* build lines 895-910: --force-realign deletes the caches that exist
\* (`existed`), then every *.wav of the clip directory is deleted
MainBuildClear ==
    /\ run_pc = "start"
    /\ run_cfg.pipeline = "build"
    /\ fs_clips' = {}
    /\ \E existed \in BOOLEAN :
         run_log' = run_log \cup logged(run_cfg.force /\ existed, "cache_deleted")
                            \cup logged(fs_clips # {}, "clips_deleted")
    /\ run_pc' = IF run_songs = <<>> THEN "outputs" ELSE "lyrics"
    /\ UNCHANGED <<run_cfg, run_songs, run_lyrics, run_handled, run_done,
                   run_all_clips, fs_meta>>
    /\ UNCHANGED <<align_vars, est_vars, chop_vars, tr_vars, sel_vars>>

\* build lines 947-956: one pass of `for future in as_completed(futures)`
\* of the lyrics stage; future.result() is not guarded
MainBuildLyrics ==
    /\ run_pc = "lyrics"
    /\ \E i \in (1..Len(run_songs)) \ run_lyrics :
         IF run_songs[i].fault = "lyrics_unreadable"
         THEN /\ run_pc' = "crashed"
              /\ UNCHANGED run_lyrics
         ELSE /\ run_lyrics' = run_lyrics \cup {i}
              /\ run_pc' = IF run_lyrics' = 1..Len(run_songs)
                           THEN "songs" ELSE "lyrics"
    /\ UNCHANGED <<run_cfg, run_songs, run_handled, run_done, run_all_clips,
                   fs_clips, fs_meta, run_log>>
    /\ UNCHANGED <<align_vars, est_vars, chop_vars, tr_vars, sel_vars>>

\* build lines 976-985: one task of _process_song_task (lines 852-879) and
\* the pass of the loop that takes its result.  With the phrase cache
\* present the phrases are read from it; an unreadable recording then fails
\* inside chop_song_by_phrases, which returns [], and otherwise raises out
\* of the task into the except clause of line 983.
MainBuildSong ==
    /\ run_pc = "songs"
    /\ run_cfg.pipeline = "build"
    /\ \E i \in run_lyrics \ run_handled :
       \E cached \in BOOLEAN :
       \E sg \in {run_songs[i]} :
         /\ run_handled' = run_handled \cup {i}
         /\ run_pc' = IF run_handled' = run_lyrics THEN "outputs" ELSE "songs"
         /\ CASE sg.fault = "audio_unreadable" ->
                   /\ run_log' = run_log
                        \cup logged(~cached /\ run_cfg.use_grok /\ run_cfg.key,
                                    "grok_called")
                   /\ UNCHANGED <<run_done, run_all_clips, fs_clips>>
              [] sg.fault = "write_raises" ->
                   /\ fs_clips' = fs_clips
                        \cup song_files(sg, written_before_raise(sg))
                   /\ run_log' = run_log
                        \cup logged(~cached, "cache_written")
                        \cup logged(~cached /\ run_cfg.use_grok /\ run_cfg.key,
                                    "grok_called")
                        \cup logged(written_before_raise(sg) # {}, "clip_written")
                   /\ UNCHANGED <<run_done, run_all_clips>>
              [] OTHER ->
                   /\ fs_clips' = fs_clips \cup song_files(sg, sg.emits)
                   /\ run_all_clips' = run_all_clips \o song_clips(sg, sg.emits)
                   /\ run_done' = run_done \cup {i}
                   /\ run_log' = run_log
                        \cup logged(~cached, "cache_written")
                        \cup logged(~cached /\ run_cfg.use_grok /\ run_cfg.key,
                                    "grok_called")
                        \cup logged(sg.emits # {}, "clip_written")
    /\ UNCHANGED <<run_cfg, run_songs, run_lyrics, fs_meta>>
    /\ UNCHANGED <<align_vars, est_vars, chop_vars, tr_vars, sel_vars>>

\* generate_outputs: the metadata and the clip lists name the clips of
\* all_clips (shuffled)
listed(all_clips) == {all_clips[k].clip_file : k \in 1..Len(all_clips)}

\* build lines 988-1000
MainBuildOutputs ==
    /\ run_pc = "outputs"
    /\ run_cfg.pipeline = "build"
    /\ fs_meta' = [written |-> TRUE, files |-> listed(run_all_clips)]
    /\ run_log' = run_log \cup {"metadata_written"}
    /\ run_pc' = "done"
    /\ UNCHANGED <<run_cfg, run_songs, run_lyrics, run_handled, run_done,
                   run_all_clips, fs_clips>>
    /\ UNCHANGED <<align_vars, est_vars, chop_vars, tr_vars, sel_vars>>

\* realign lines 532-534
MainRealignNoKey ==
    /\ run_pc = "start"
    /\ run_cfg.pipeline = "realign"
    /\ key_missing
    /\ run_pc' = "exited"
    /\ UNCHANGED <<run_cfg, run_songs, run_lyrics, run_handled, run_done,
                   run_all_clips, fs_clips, fs_meta, run_log>>
    /\ UNCHANGED <<align_vars, est_vars, chop_vars, tr_vars, sel_vars>>

\* realign lines 537-593: every song's lyrics and phrases are read (json.load
\* is not guarded), an empty batch exits, --force deletes the caches
MainRealignDiscover ==
    /\ run_pc = "start"
    /\ run_cfg.pipeline = "realign"
    /\ ~key_missing
    /\ IF \E i \in 1..Len(run_songs) : run_songs[i].fault = "lyrics_unreadable"
       THEN /\ run_pc' = "crashed"
            /\ UNCHANGED <<run_lyrics, run_log>>
       ELSE IF run_songs = <<>>
       THEN /\ run_pc' = "exited"
            /\ UNCHANGED <<run_lyrics, run_log>>
       ELSE /\ run_pc' = "songs"
            /\ run_lyrics' = 1..Len(run_songs)
            /\ \E existed \in BOOLEAN :
                 run_log' = run_log
                     \cup logged(run_cfg.force /\ existed, "cache_deleted")
    /\ UNCHANGED <<run_cfg, run_songs, run_handled, run_done, run_all_clips,
                   fs_clips, fs_meta>>
    /\ UNCHANGED <<align_vars, est_vars, chop_vars, tr_vars, sel_vars>>

\* realign lines 599-691: one pass of `for si, song in enumerate(songs)`;
\* nothing in the loop body is guarded.  `hit`: the transcription cache
\* exists; `vocal`: some window has words, so the phrase file is rewritten.
MainRealignSong ==
    /\ run_pc = "songs"
    /\ run_cfg.pipeline = "realign"
    /\ \E i \in {j \in run_lyrics \ run_handled :
                   \A h \in run_lyrics \ run_handled : j <= h} :
       \E hit \in BOOLEAN, vocal \in BOOLEAN :
       \E sg \in {run_songs[i]} :
         CASE sg.fault = "audio_unreadable" ->
                /\ run_pc' = "crashed"
                /\ UNCHANGED <<run_handled, run_done, run_all_clips, fs_clips,
                               run_log>>
           [] sg.fault = "write_raises" ->
                /\ run_pc' = "crashed"
                /\ fs_clips' = fs_clips
                     \cup song_files(sg, written_before_raise(sg))
                /\ run_log' = run_log
                     \cup logged(~hit, "grok_called")
                     \cup logged(~hit \/ vocal, "cache_written")
                     \cup logged(written_before_raise(sg) # {}, "clip_written")
                /\ UNCHANGED <<run_handled, run_done, run_all_clips>>
           [] OTHER ->
                /\ run_handled' = run_handled \cup {i}
                /\ run_done' = run_done \cup {i}
                /\ run_pc' = IF run_handled' = run_lyrics
                             THEN "outputs" ELSE "songs"
                /\ IF run_cfg.dry_run
                   THEN /\ run_log' = run_log
                             \cup logged(~hit, "grok_called")
                             \cup logged(~hit, "cache_written")
                        /\ UNCHANGED <<run_all_clips, fs_clips>>
                   ELSE /\ fs_clips' = fs_clips \cup song_files(sg, sg.emits)
                        /\ run_all_clips' =
                             run_all_clips \o song_clips(sg, sg.emits)
                        /\ run_log' = run_log
                             \cup logged(~hit, "grok_called")
                             \cup logged(~hit \/ vocal, "cache_written")
                             \cup logged(sg.emits # {}, "clip_written")
    /\ UNCHANGED <<run_cfg, run_songs, run_lyrics, fs_meta>>
    /\ UNCHANGED <<align_vars, est_vars, chop_vars, tr_vars, sel_vars>>

\* realign lines 701-703
MainRealignDryReturn ==
    /\ run_pc = "outputs"
    /\ run_cfg.pipeline = "realign"
    /\ run_cfg.dry_run
    /\ run_pc' = "dry_done"
    /\ UNCHANGED <<run_cfg, run_songs, run_lyrics, run_handled, run_done,
                   run_all_clips, fs_clips, fs_meta, run_log>>
    /\ UNCHANGED <<align_vars, est_vars, chop_vars, tr_vars, sel_vars>>

\* realign lines 705-710
MainRealignOutputs ==
    /\ run_pc = "outputs"
    /\ run_cfg.pipeline = "realign"
    /\ ~run_cfg.dry_run
    /\ fs_meta' = [written |-> TRUE, files |-> listed(run_all_clips)]
    /\ run_log' = run_log \cup {"metadata_written"}
    /\ run_pc' = "done"
    /\ UNCHANGED <<run_cfg, run_songs, run_lyrics, run_handled, run_done,
                   run_all_clips, fs_clips>>
    /\ UNCHANGED <<align_vars, est_vars, chop_vars, tr_vars, sel_vars>>

NextBatch ==
    \/ MainBuildClear
    \/ MainBuildLyrics
    \/ MainBuildSong
    \/ MainBuildOutputs
    \/ MainRealignNoKey
    \/ MainRealignDiscover
    \/ MainRealignSong
    \/ MainRealignDryReturn
    \/ MainRealignOutputs

SpecBatch == InitBatch /\ [][NextBatch]_vars

-----------------------------------------------------------------------------
(* Claims about a run over a batch.                                        *)

Faulty(i) == run_songs[i].fault # "none"

\* the run has ended after passing the startup checks
RunEnded == run_pc \in {"done", "dry_done", "crashed"}

\* C17: a clip's file name is the function clip_name of (song index,
\* artist, title, phrase index), and two clips emitted in one batch that
\* differ in song index or in phrase index have different file names.
C17_ClipNamesCollisionFree ==
    /\ \A a \in 1..Len(run_all_clips) :
         run_all_clips[a].clip_file =
            clip_name([song_idx |-> run_all_clips[a].song_index,
                       artist |-> run_all_clips[a].artist,
                       title |-> run_all_clips[a].title],
                      run_all_clips[a].clip_index)
    /\ \A a, b \in 1..Len(run_all_clips) :
         (\/ run_all_clips[a].song_index # run_all_clips[b].song_index
          \/ run_all_clips[a].clip_index # run_all_clips[b].clip_index)
            => run_all_clips[a].clip_file # run_all_clips[b].clip_file

\* two songs whose artist and title sanitize to the same text have both
\* emitted their clips 0 and 1
C17_Witness ==
    /\ Len(run_all_clips) = 4
    /\ run_all_clips[1].song_index # run_all_clips[3].song_index
    /\ run_all_clips[1].clip_index = run_all_clips[3].clip_index
    /\ run_all_clips[1].artist # run_all_clips[3].artist
    /\ safe_artist(run_all_clips[1].artist) = safe_artist(run_all_clips[3].artist)
    /\ safe_title(run_all_clips[1].title) = safe_title(run_all_clips[3].title)
    /\ run_all_clips[1].clip_index # run_all_clips[2].clip_index

\* C18: after a completed non-dry run of either pipeline the clip files in
\* the clip directory are exactly the clip files the metadata of that run
\* lists.
C18_ClipsEqualMetadata ==
    run_pc = "done" =>
        /\ fs_meta.written
        /\ fs_clips = fs_meta.files

\* C19: when processing one song raises, the run still ends normally: the
\* song is skipped, every other song is processed and, unless the run is a
\* dry run, the output files are generated.
C19_SongFailureIsolated ==
    (RunEnded /\ \E i \in 1..Len(run_songs) : Faulty(i)) =>
        /\ run_pc \in {"done", "dry_done"}
        /\ \A i \in 1..Len(run_songs) : (i \in run_done) <=> ~Faulty(i)
        /\ run_pc = "done" => fs_meta.written

\* nothing has been done to a song or a file
NothingDone ==
    /\ run_handled = {}
    /\ run_all_clips = <<>>
    /\ run_log = {}
    /\ ~fs_meta.written
    /\ fs_clips = fs_meta.files

\* C20: without XAI_API_KEY a run of either pipeline terminates at startup,
\* before any song is processed and before any cache, clip or metadata file
\* is created, modified or deleted.
C20_MissingKeyTerminates ==
    (run_pc # "idle" /\ ~run_cfg.key) =>
        /\ run_pc \in {"start", "exited"}
        /\ NothingDone

\* C20, amended: without XAI_API_KEY a realign run terminates at startup
\* before anything is done; a build run goes on and never calls the ranking
\* or the transcription capability.
C20_MissingKeyRealignTerminates ==
    (run_pc # "idle" /\ ~run_cfg.key) =>
        /\ run_cfg.pipeline = "realign" =>
              /\ run_pc \in {"start", "exited"}
              /\ NothingDone
        /\ run_cfg.pipeline = "build" =>
              /\ run_pc \notin {"exited", "dry_done"}
              /\ "grok_called" \notin run_log

\* a realign run without the key has exited and the clips of the earlier
\* run are as they were
C20_Witness ==
    /\ run_cfg.pipeline = "realign"
    /\ ~run_cfg.key
    /\ run_pc = "exited"
    /\ run_songs # <<>>
    /\ fs_clips = OldClips
    /\ NothingDone

\* what a run can do to a file
FileOps == {"cache_deleted", "cache_written", "clips_deleted", "clip_written",
            "metadata_written"}

\* C21: a realign run with --dry-run creates, rewrites or deletes no
\* transcription cache, phrase file, clip file or metadata file, whatever
\* the other options and the state of the songs.
C21_DryRunModifiesNothing ==
    (run_cfg.pipeline = "realign" /\ run_cfg.dry_run) =>
        /\ run_log \cap FileOps = {}
        /\ ~fs_meta.written
        /\ fs_clips = fs_meta.files

-----------------------------------------------------------------------------
(* The sliding-window strategy of the matcher.                             *)

\* the words lw occur as a run of consecutive words of tw
OccursIn(lw, tw) ==
    \E i \in 0..(Len(tw) - Len(lw)) : SubSeq(tw, i + 1, i + Len(lw)) = lw

ConsecOf == [l \in Lyrics, t \in Transcripts |-> consec(TextWords[l], TextWords[t])]

\* window k is scored and holds the words of the handled lyric as a run
HoldsLyric(k) ==
    /\ Eligible(k)
    /\ OccursIn(TextWords[last_match.lyric], TextWords[segments[k].text])

\* C22: for a lyric of one word or more whose words occur as a run in a
\* scored window's transcript, the window's sliding-window score is 1.0 and
\* its final score is at least 0.95.
C22_ExactRunScoresHigh ==
    (Handled /\ TextWords[last_match.lyric] # <<>>) =>
        \A k \in 1..Len(segments) :
            HoldsLyric(k) =>
                /\ FracEQ(ConsecOf[last_match.lyric, segments[k].text], Frac(1, 1))
                /\ FracGE(ScoreOf(k), Frac(95, 100))
                /\ FracGE(last_match.score, Frac(95, 100))

\* C22, amended: the above for lyrics of two words or more; for a lyric of
\* a single word the sliding-window score is 0 and the final score is at
\* least 0.85.
C22_ExactRunOfTwoScoresHigh ==
    (Handled /\ TextWords[last_match.lyric] # <<>>) =>
        \A k \in 1..Len(segments) :
            HoldsLyric(k) =>
                IF Len(TextWords[last_match.lyric]) >= 2
                THEN /\ FracEQ(ConsecOf[last_match.lyric, segments[k].text],
                               Frac(1, 1))
                     /\ FracGE(ScoreOf(k), Frac(95, 100))
                     /\ FracGE(last_match.score, Frac(95, 100))
                ELSE /\ FracEQ(ConsecOf[last_match.lyric, segments[k].text], Zero)
                     /\ FracGE(ScoreOf(k), Frac(85, 100))
                     /\ FracGE(last_match.score, Frac(85, 100))

\* a lyric of two words was found as a run that does not start the window's
\* transcript, and the window scored 0.95
C22_Witness ==
    /\ Handled
    /\ Len(TextWords[last_match.lyric]) = 2
    /\ \E k \in 1..Len(segments) :
         /\ HoldsLyric(k)
         /\ SubSeq(TextWords[segments[k].text], 1, 2) # TextWords[last_match.lyric]
         /\ FracEQ(ScoreOf(k), Frac(95, 100))
         /\ last_match.seg = k

-----------------------------------------------------------------------------
(* Concurrency and retries of the Windowed Transcriber.                    *)

\* the windows (0-based) whose transcription request is under way
InFlight ==
    IF tr_pc = "gather"
    THEN {tr_batch_start + p - 1 : p \in {q \in DOMAIN tr_results :
                                            ~tr_results[q].done}}
    ELSE {}

\* C23: in transcribe_song at most PARALLEL_WORKERS requests of a song are
\* in flight at any moment, all of one batch, and requests are issued only
\* when no request of an earlier batch is still in flight.
C23_BoundedBatches ==
    /\ [](/\ Cardinality(InFlight) <= PARALLEL_WORKERS
          /\ \A i, j \in InFlight :
               i \div PARALLEL_WORKERS = j \div PARALLEL_WORKERS)
    /\ [][(InFlight' \ InFlight # {}) => InFlight = {}]_vars

\* the single request of a second batch is in flight after the five of the
\* first batch have filled their slots
C23_Witness ==
    /\ tr_pc = "gather"
    /\ tr_batch_start = PARALLEL_WORKERS
    /\ InFlight = {PARALLEL_WORKERS}
    /\ \A i \in 1..PARALLEL_WORKERS : tr_segments[i] # None

\* the build loop closes its current window with this step
BuildWindowClosed ==
    /\ tr_pc = "seq"
    /\ tr_call.pipeline = "build"
    /\ Len(tr_segments') = Len(tr_segments) + 1

\* C24: in grok_transcribe_song a window whose call fails (timeout,
\* connection or API error) is retried; the capability is invoked at most
\* ATTEMPTS times for a window, and a window is closed without a transcript
\* only after ATTEMPTS failed invocations, with the empty string as text.
C24_TransientFailureRetried ==
    /\ [](tr_attempt < ATTEMPTS)
    /\ [][(BuildWindowClosed /\ tr_last'.what # "text") =>
             /\ tr_attempt = ATTEMPTS - 1
             /\ tr_segments'[Len(tr_segments')].text = <<>>]_vars

-----------------------------------------------------------------------------
(* C25: every (start, end) estimate_line_timestamps returns, on the onset  *)
(* path and on the uniform path alike, is at least MIN_PHRASE_DURATION and *)
(* at most MAX_PHRASE_DURATION + 1.0 wide.                                 *)

EstDone == est_pc = "done"

WidthInRange(t) ==
    /\ MIN_PHRASE_DURATION <= t[2] - t[1]
    /\ t[2] - t[1] <= MAX_PHRASE_DURATION + EXTEND_SLACK

C25_WidthsInRange ==
    EstDone =>
        \A i \in 1..Len(est_timestamps) : WidthInRange(est_timestamps[i])

\* C25 as amended: on the onset path (two onsets or more) every returned
\* (start, end) is at least MIN_PHRASE_DURATION and at most
\* MAX_PHRASE_DURATION + 1.0 wide; on the uniform path every slice is
\* duration / N wide, whatever that is.
C25_OnsetWidthsInRange ==
    EstDone =>
        IF Len(onset_times) >= 2
        THEN \A i \in 1..Len(est_timestamps) : WidthInRange(est_timestamps[i])
        ELSE \A i \in 1..Len(est_timestamps) :
                 IsQuotient(est_timestamps[i][2], i * song_dur, est_num_lines)
                 /\ IsQuotient(est_timestamps[i][1], (i - 1) * song_dur,
                               est_num_lines)

\* an onset-path return where the floor acted on one entry and the cap of
\* the extension on another
C25_Witness ==
    /\ EstDone
    /\ Len(onset_times) >= 2
    /\ \E i \in 1..Len(est_timestamps) :
           est_timestamps[i][2] - est_timestamps[i][1] = MIN_PHRASE_DURATION
    /\ \E i \in 1..Len(est_timestamps) :
           est_timestamps[i][2] - est_timestamps[i][1]
               = MAX_PHRASE_DURATION + EXTEND_SLACK

-----------------------------------------------------------------------------
(* C26: the segments estimate_line_timestamps returns are in non-decreasing *)
(* start order, lie within [0, duration] and do not overlap (each end is at *)
(* most the next start); no two lines receive the same (start, end).        *)

StartsOrdered(ts) ==
    \A i \in 1..(Len(ts) - 1) : ts[i][1] <= ts[i + 1][1]

NextStartOrDuration(ts, i) ==
    IF i + 1 <= Len(ts) THEN {ts[i + 1][1]}
    ELSE {song_dur} \cup Round3(song_dur, 1)

-----------------------------------------------------------------------------
(* C27: in the Clip Chopper the rejection of one phrase changes nothing    *)
(* for any other phrase among the first MAX_CLIPS_PER_SONG: whether phrase *)
(* j is emitted, its samples, its file name and its clip_index (j's        *)
(* position in the list) follow from phrase j alone; at most               *)
(* MAX_CLIPS_PER_SONG clips are emitted and no phrase beyond that position *)
(* is.                                                                     *)

PhraseAt(j) == chop_phrases[j + 1]

PaddedLo(j) == sample_index(start_padded(PhraseAt(j)))
PaddedHi(j) == sample_index(end_padded(PhraseAt(j), wave_duration(wave)))

PdurAt(j) ==
    end_padded(PhraseAt(j), wave_duration(wave)) - start_padded(PhraseAt(j))

\* phrase j on its own may pass both tests / may fail one of them
Emittable(j) ==
    /\ FALSE \in rejects_duration(PdurAt(j), chopper)
    /\ \E lo \in PaddedLo(j), hi \in PaddedHi(j) :
           FALSE \in is_silent(sum_squares(wave, lo, hi), slice_len(wave, lo, hi))

Droppable(j) ==
    \/ TRUE \in rejects_duration(PdurAt(j), chopper)
    \/ \E lo \in PaddedLo(j), hi \in PaddedHi(j) :
           TRUE \in is_silent(sum_squares(wave, lo, hi), slice_len(wave, lo, hi))

RecordOf(j) == {k \in 1..Len(clips_meta) : clips_meta[k].clip_index = j}

C27_RejectionIsLocal ==
    /\ Len(clips_meta) <= MAX_CLIPS_PER_SONG
    /\ Cardinality(clip_files) <= MAX_CLIPS_PER_SONG
    /\ \A k \in 1..Len(clips_meta) :
         LET j == clips_meta[k].clip_index
         IN  /\ 0 <= j /\ j < chop_ci
             /\ j < Min(Len(chop_phrases), MAX_CLIPS_PER_SONG)
             /\ RecordOf(j) = {k}
             /\ Emittable(j)
             /\ clips_meta[k].clip_file = clip_name(chop_song, j)
             /\ clips_meta[k].lyric = PhraseAt(j).lyric
             /\ clips_meta[k].start_time \in Round3(PhraseAt(j).start, 1)
             /\ clips_meta[k].end_time \in Round3(PhraseAt(j).end, 1)
             /\ \E f \in clip_files :
                    /\ f.name = clip_name(chop_song, j)
                    /\ f.lo \in PaddedLo(j)
                    /\ f.hi \in PaddedHi(j)
    /\ \A j \in 0..(chop_ci - 1) : RecordOf(j) = {} => Droppable(j)
    /\ chop_ci <= MAX_CLIPS_PER_SONG

\* the loop is over for a list longer than the cap: the last phrase inside
\* the cap was rejected, the one before it was emitted under its own
\* position, and the phrases beyond the cap, emittable on their own, were
\* never looked at
C27_Witness ==
    /\ chopper # "none"
    /\ ~ChopHasNext
    /\ Len(chop_phrases) > MAX_CLIPS_PER_SONG
    /\ RecordOf(MAX_CLIPS_PER_SONG - 1) = {}
    /\ RecordOf(MAX_CLIPS_PER_SONG - 2) # {}
    /\ Len(clips_meta) = MAX_CLIPS_PER_SONG - 1
    /\ Emittable(MAX_CLIPS_PER_SONG)

-----------------------------------------------------------------------------
(* C28: for a song with a vocal window realign writes one corrected phrase *)
(* per input phrase, in the same order, with lyric and line_index          *)
(* unchanged, and a phrase that is not accepted (no window, or confidence  *)
(* below the threshold) keeps exactly its previous start and end; for a    *)
(* song without a vocal window the phrase file is left as it was.          *)

\* input phrase i is accepted: line 638
AcceptedPhrase(i) ==
    LET m == match_lyric_to_segments(song_phrases[i].lyric, segments)
    IN  m.seg # 0 /\ FracGE(m.score, MIN_CONFIDENCE)

C28_OneCorrectedPhrasePerInput ==
    pipeline = "realign" =>
        /\ song_pc = "saved" =>
              /\ vocal_segs(segments) # <<>>
              /\ Len(phrases_file) = Len(song_phrases)
              /\ \A i \in 1..Len(song_phrases) :
                    /\ phrases_file[i].lyric = song_phrases[i].lyric
                    /\ phrases_file[i].line_index = song_phrases[i].line_index
                    /\ ~AcceptedPhrase(i) =>
                          /\ phrases_file[i].start = song_phrases[i].start
                          /\ phrases_file[i].end = song_phrases[i].end
        /\ song_pc # "saved" => phrases_file = song_phrases

\* a phrase file written with one phrase moved and another kept where it was
C28_Witness ==
    /\ pipeline = "realign"
    /\ song_pc = "saved"
    /\ \E i, j \in 1..Len(song_phrases) :
          /\ AcceptedPhrase(i)
          /\ phrases_file[i].start # song_phrases[i].start
          /\ ~AcceptedPhrase(j)
          /\ phrases_file[j].end = song_phrases[j].end
          /\ song_phrases[j].end # 0

-----------------------------------------------------------------------------
(* C29: realign's counters satisfy matched + unmatched + kept_old = number *)
(* of input phrases handled: every phrase is counted once, in exactly one  *)
(* of the three categories.                                                *)

Counted == stats.matched + stats.unmatched + stats.kept_old

\* the step raises at most one of the three counters
OneCategory ==
    Cardinality({c \in {"matched", "unmatched", "kept_old"} :
                    stats'[c] # stats[c]}) <= 1

C29_EveryPhraseCountedOnce ==
    /\ [](pipeline = "realign" => Counted = ph_pos)
    /\ [][pipeline = "realign" =>
            /\ Counted' - Counted = ph_pos' - ph_pos
            /\ OneCategory
            /\ \A c \in {"matched", "unmatched", "kept_old"} :
                   stats'[c] >= stats[c]]_vars

\* a song is over with phrases in two of the categories
C29_Witness ==
    /\ pipeline = "realign"
    /\ song_pc \in {"saved", "dry_run"}
    /\ stats.matched >= 1
    /\ stats.unmatched >= 1
    /\ Counted = Len(song_phrases)

-----------------------------------------------------------------------------
(* C30: for a lyric and a window transcript with at least one word each,   *)
(* the word offset the Refiner chooses is the smallest offset that attains *)
(* the largest match fraction (0 when no word matches), and the start      *)
(* estimated from it, before the clamping to the song, lies inside the     *)
(* matched window: window.start <= start < window.end.                     *)

\* the latest pass ran the Refiner's estimate on the window last_match.seg
RefinedByOffset ==
    /\ last_match.refined
    /\ last_match.seg # 0
    /\ TextWords[last_match.lyric] # <<>>
    /\ TextWords[segments[last_match.seg].text] # <<>>

RefinedWindow == segments[last_match.seg]

ChosenOffset == BestPos[last_match.lyric, RefinedWindow.text]

\* number of agreeing positions of the lyric at offset i of the window, the
\* numerator of the match fraction
AgreeAt(i) ==
    slide_matches(TextWords[last_match.lyric], TextWords[RefinedWindow.text],
                  i, REFINE_RATIO)

RefinerOffsets ==
    Offsets(TextWords[last_match.lyric], TextWords[RefinedWindow.text])

SmallestBestOffset ==
    /\ ChosenOffset \in RefinerOffsets
    /\ \A j \in RefinerOffsets :
          /\ AgreeAt(j) <= AgreeAt(ChosenOffset)
          /\ j < ChosenOffset => AgreeAt(j) < AgreeAt(ChosenOffset)

\* est_start and the window bounds over the common denominator
EstStartNum ==
    est_start_before_clamp(TextWords[RefinedWindow.text], ChosenOffset,
                           RefinedWindow.start,
                           RefinedWindow.end - RefinedWindow.start)

EstStartDen ==
    IF RefinedWindow.end - RefinedWindow.start > 0
    THEN Len(TextWords[RefinedWindow.text]) ELSE 1

C30_SmallestBestOffsetInsideWindow ==
    RefinedByOffset =>
        /\ SmallestBestOffset
        /\ RefinedWindow.start * EstStartDen <= EstStartNum
        /\ EstStartNum < RefinedWindow.end * EstStartDen

\* C30 as amended: the chosen offset is the smallest one that attains the
\* largest match fraction (0 when no word matches); the start estimated
\* from it, before the clamping, is at or after window.start, and before
\* window.end when the window has a positive duration; for a window whose
\* start and end coincide it is window.start + offset / 5.0.
C30_SmallestBestOffsetFromWindowStart ==
    RefinedByOffset =>
        /\ SmallestBestOffset
        /\ RefinedWindow.start * EstStartDen <= EstStartNum
        /\ IF RefinedWindow.end > RefinedWindow.start
           THEN EstStartNum < RefinedWindow.end * EstStartDen
           ELSE EstStartNum
                    = RefinedWindow.start + ChosenOffset * FALLBACK_WPS_GAP

\* the Refiner ran on a window of positive duration where two offsets attain
\* the same largest fraction, and kept the smaller one
C30_Witness ==
    /\ RefinedByOffset
    /\ RefinedWindow.end > RefinedWindow.start
    /\ AgreeAt(ChosenOffset) > 0
    /\ \E j \in RefinerOffsets :
          j > ChosenOffset /\ AgreeAt(j) = AgreeAt(ChosenOffset)

=============================================================================
